---- MODULE Spec2Model ----
(***************************************************************************)
(* Model of the concurrent harvesting pipeline of muslim_name_scrapper:    *)
(* MuslimNamesScraper (scraper.py), DataStorage (storage.py) and           *)
(* ProgressTracker (progress.py).                                          *)
(*                                                                         *)
(* Threads: the driver (scrape_all, main thread), one category thread per  *)
(* gender (scrape_gender_worker / scrape_gender_names) and the pool        *)
(* workers of each category (scrape_page).  An optional value (Python      *)
(* None or an int) is a sequence of length 0 or 1.                         *)
(***************************************************************************)
EXTENDS Integers, Sequences, FiniteSets, TLC

\* ------------------------------------------------------------------ bounds
MaxPages == 2        \* largest page count a category harvest dispatches
MaxNames == 1        \* largest number of name rows on one page
MaxFetchFaults == 3  \* fetch_page calls that may return no content in one run
MaxIOFaults == 1     \* writes that may raise an I/O error in one run
MaxWorkers == 2      \* largest pool size W passed to MuslimNamesScraper
MaxRows == 2         \* largest number of rows of one batch in the sink specification
MaxRetries == 2      \* largest max_retries argument of NetworkManager
MaxCount == 12       \* largest page count and page cap of the dispatch specification
MaxNameRows == 2     \* largest number of name rows of a parsed page
MaxText == 5         \* longest text of a pagination element
MaxSaves == 2        \* save_progress calls on one ProgressTracker
MaxStored == 2       \* records held by the DataStorage whose JSON snapshot is written
MaxJsonCalls == 2    \* save_json_final calls on one DataStorage
MaxPath == 3         \* longest of the arbitrary key paths Config.get is called with
MaxInstances == 2    \* Config objects created
MaxHandouts == 2     \* get_config calls
MaxSets == 1         \* Config.set calls

\* --------------------------------------------------------------- constants
DefaultPages == 10   \* fallback page count, scraper.py:96
DefaultRetryTotal == 3  \* network.retry.total of the default configuration
DefaultMaxWorkers == 16 \* scraper.max_workers of the default configuration

Genders == {"male", "female"}
Pages == 1..MaxPages
None == <<>>
Some(n) == <<n>>

VARIABLES
    max_pages,   \* scrape_all argument: None or an int
    max_workers, \* MuslimNamesScraper.max_workers: size W of each category's pool
    dpc,         \* position of the driver (scrape_all)
    outcome,     \* how scrape_all ended: "none", "result", "KeyboardInterrupt"
    summary,     \* the result dict scrape_all returned: None or Some(record)
    gpc,         \* gpc[g]: position of category thread g
    total,       \* total[g]: total_pages of category g (0 before discovery)
    tpc,         \* tpc[g][p]: position of the current scrape_page attempt of page p
    completed,   \* completed[g]: completed_pages list
    failed,      \* failed[g]: failed_pages list
    ri,          \* ri[g]: index into failed[g] of the retry loop
    extracted,   \* extracted[g][p]: None, or the number of names parsed for the page
    poolRes,     \* poolRes[g][p]: result['success'] of the pool attempt: "none","ok","fail",
                 \*   or "exc" when scrape_page raised
    retryRes,    \* retryRes[g][p]: result['success'] of the retry attempt
    saveCalls,   \* saveCalls[g][p]: save_names_batch calls that passed `if not names`
    csvRes,      \* csvRes[g][p]: the batch's CSV write: "none" (not attempted), "ok",
                 \*   "err" (I/O error, logged), "closed" (handle closed, logged)
    dbRes,       \* dbRes[g][p]: the batch's SQLite write, likewise
    lock,        \* DataStorage.lock: None or Some(<<g, p>>) of the holder
    scraped_names, \* DataStorage.scraped_names
    csv,         \* data rows written to the CSV file
    dbc,         \* rows committed to the SQLite table
    dbp,         \* rows inserted in the open SQLite transaction, not committed
    filesOpen,   \* csv_file / db_connection are open (not closed by close_files)
    json,        \* the JSON snapshot: None or Some(sequence of records)
    progress,    \* the checkpoint file: None or Some(record)
    fetchFaults, \* failed fetches so far
    ioFaults,    \* I/O errors so far
    page_count,  \* get_page_count's result for the first page: None or an int
    page_args,   \* the page_args list built from total_pages: None before it is built
    poolStarts,  \* poolStarts[g][p]: scrape_page calls for page p made by a pool worker
    retryStarts, \* retryStarts[g][p]: scrape_page calls for page p made by the retry pass
    delays,      \* delays[g]: time.sleep(retry_delay) calls of the retry pass
    discovered,  \* discovered[g]: the first-page fetch: "none", "ok", "fail"
    emptyBody,   \* emptyBody[g][p]: the attempts ("pool", "retry") of the page whose
                 \*   fetch got a successful response with an empty body
    \* one fetch_page call (NetworkManager)
    retry_total,  \* self.max_retries, the Retry strategy's total
    sent,         \* what each send of the request met: an error or a response
    transport,    \* how session.get ended: "idle", "sending", "response" or the
                  \*   exception it raised
    fetch_result, \* what fetch_page did: "idle", "pending", "content", "None", "raised"
    \* one parse_names_from_page call (HTMLParser)
    html_content, \* the page: the sequence of its div.name_row elements
    gender,       \* the gender argument
    parsed,       \* None before the call returns, then Some(the returned names list)
    \* one get_page_count call (HTMLParser)
    page_info,    \* the pagination div: None when the page has none, or Some(its text)
    count_result, \* kind: "idle", "pending", "raised" or "returned"; value: the
                  \*   returned value, None or Some(n)
    \* one ProgressTracker
    progress_file, \* self.progress_file: None or a path
    ckpt,          \* the file at that path: None when there is none, or Some(the
                   \*   sequence of documents its text holds)
    saved,         \* the arguments of the save_progress calls so far
    loaded,        \* kind: "idle" or "returned"; value: the returned value, None
                   \*   or Some(the loaded dict)
    \* one DataStorage after the harvests
    store_names,   \* self.scraped_names
    json_file,     \* the file at json_path: None when there is none, or Some(the
                   \*   sequence of documents its text holds)
    json_calls,    \* what each save_json_final call so far met and left behind
    \* the configuration module
    heap,            \* the dict objects that exist, by identity: heap[id]
    instances,       \* the Config objects created so far: the identity of
                     \*   self._config, the file loaded, the number of set calls
                     \*   before its creation, whether set was called on it
    config_instance, \* the module's _config_instance: None or Some(instance)
    handouts,        \* what each get_config call returned, and after how many
                     \*   reload_config calls
    reloads,         \* reload_config calls so far
    sets,            \* Config.set calls so far
    got              \* the last Config.get call: its arguments and how it ended

vars == <<max_pages, max_workers, dpc, outcome, summary, gpc, total, tpc, completed, failed, ri,
          extracted, poolRes, retryRes, saveCalls, csvRes, dbRes, lock,
          scraped_names, csv, dbc, dbp, filesOpen, json, progress,
          fetchFaults, ioFaults, page_count, page_args, poolStarts, retryStarts,
          delays, discovered, emptyBody, retry_total, sent, transport, fetch_result,
          html_content, gender, parsed, page_info, count_result,
          progress_file, ckpt, saved, loaded, store_names, json_file, json_calls,
          heap, instances, config_instance, handouts, reloads, sets, got>>

\* The variables of the specifications of single functions.
fetchVars == <<retry_total, sent, transport, fetch_result>>
parserVars == <<html_content, gender, parsed>>
countVars == <<page_info, count_result>>
trackerVars == <<progress_file, ckpt, saved, loaded>>
storeVars == <<store_names, json_file, json_calls>>
configVars == <<heap, instances, config_instance, handouts, reloads, sets, got>>
pureVars == <<fetchVars, parserVars, countVars, trackerVars, storeVars, configVars>>

driverVars == <<max_pages, max_workers, page_count, page_args, dpc, outcome, summary, json,
                progress, pureVars>>
threadVars == <<gpc, total, completed, failed, ri>>
histVars == <<extracted, poolRes, retryRes, saveCalls, csvRes, dbRes>>
sinkVars == <<lock, scraped_names, csv, dbc, dbp, filesOpen>>
auditVars == <<poolStarts, retryStarts, delays, discovered, emptyBody>>

\* Every variable of the concurrent pipeline.
pipelineVars == <<max_pages, max_workers, page_count, page_args, dpc, outcome, summary, json,
                  progress, threadVars, tpc, histVars, auditVars, sinkVars,
                  fetchFaults, ioFaults>>

\* ---------------------------------------------------------------- helpers
Min(a, b) == IF a < b THEN a ELSE b

\* The records of one page: (gender, page, row index).
Names(g, p, n) == [i \in 1..n |-> <<g, p, i>>]

\* Number of records of page (g, p) in a sequence of records.
CountOf(s, g, p) == Cardinality({i \in DOMAIN s : s[i][1] = g /\ s[i][2] = p})

\* The first k elements of a sequence.
Prefix(s, k) == SubSeq(s, 1, k)

\* A harvest without the default: an unknown page count dispatches nothing.
TotalPagesNoDefault(count, cap) ==
    LET t == IF count = None THEN 0 ELSE count[1]
    IN  IF cap # None /\ cap[1] # 0 THEN Min(t, cap[1]) ELSE t

\* scrape_gender_names, lines 93-99: total_pages from get_page_count's result
\* and max_pages; `if max_pages:` skips the clamp for None and for 0.
TotalPages(count, cap) ==
    LET t == IF count = None THEN DefaultPages ELSE count[1]
    IN  IF cap # None /\ cap[1] # 0 THEN Min(t, cap[1]) ELSE t

\* x occurs in the sequence s.
InSeq(x, s) == \E i \in DOMAIN s : s[i] = x

\* A page list that leaves out the last page: range(1, total_pages).
PageArgsExclusive(t) == [i \in 1..(t - 1) |-> i]

\* scrape_gender_names, line 104: the pages of range(1, total_pages + 1), one
\* task each; empty when total_pages < 1.
PageArgs(t) == [i \in 1..t |-> i]

\* Values get_page_count can return, and values of the max_pages argument.
PageCounts == {None} \cup {Some(n) : n \in 0..MaxPages}
Caps == {None} \cup {Some(n) : n \in 0..MaxPages}

\* Positions of a scrape_page attempt that occupy a thread.
Active == {"fetch", "wait", "csv", "db"}

InFlight(g) == Cardinality({p \in Pages : tpc[g][p] \in Active})

Queued(g) == {p \in Pages : tpc[g][p] = "queued"}

\* A pool that starts a task whatever the number of busy workers.
WorkerFreeAlways(g) == TRUE

\* A single pool shared by both categories.
WorkerFreeShared(g) == InFlight("male") + InFlight("female") < max_workers

\* ThreadPoolExecutor(max_workers=self.max_workers), line 117: the category's
\* own pool has an idle worker.
WorkerFree(g) == InFlight(g) < max_workers

\* A retry pass that starts once some future has been collected.
PoolDrainedAny(g) == \E p \in Pages : tpc[g][p] = "col"

\* scrape_gender_names, lines 117-137: as_completed has yielded every
\* submitted future and the executor's `with` block is left.
PoolDrained(g) == \A p \in Pages : tpc[g][p] \in {"none", "col"}

\* A sink whose write section is entered without the lock.
LockIgnored == TRUE

\* DataStorage.save_names_batch, line 144: `with self.lock` can be entered.
LockFree == lock = None

\* A harvest that falls back to one page when the first page cannot be fetched.
DiscoveryFailedDispatches(g) ==
    /\ total' = [total EXCEPT ![g] = 1]
    /\ tpc' = [tpc EXCEPT ![g][1] = "queued"]
    /\ gpc' = [gpc EXCEPT ![g] = "pool"]

\* scrape_gender_names, lines 89-91: the first page could not be fetched; the
\* harvest returns [] and no task is submitted.
DiscoveryFailed(g) ==
    /\ gpc' = [gpc EXCEPT ![g] = "done"]
    /\ UNCHANGED <<total, tpc>>

\* A sink that does not keep the batch in memory.
ExtendDropped(mem, names) == mem

\* A sink that assigns the batch instead of extending the list.
ExtendAssigns(mem, names) == names

\* DataStorage.save_names_batch, line 147: self.scraped_names.extend(names).
Extend(mem, names) == mem \o names

\* DataStorage.get_total_count: len(self.scraped_names).
get_total_count == Len(scraped_names)

\* A retry pass that is handed every page, not the failed ones only.
RetryListAll(g) == failed[g] \o completed[g]

\* scrape_gender_names, lines 142-144: the pages handed to _retry_failed_pages.
RetryList(g) == failed[g]

\* A retry pass that tests the attempt's result the wrong way round.
PromoteInverted(done, p, success) == IF success THEN done ELSE Append(done, p)

\* A retry pass that promotes the page whatever the attempt's result.
PromoteAlways(done, p, success) == Append(done, p)

\* _retry_failed_pages, lines 157-161: completed_pages after one retry attempt.
Promote(done, p, success) == IF success THEN Append(done, p) ELSE done

\* A collection loop that forgets the pages that failed.
FailedAfterNever(lst, p, success) == lst

\* A collection loop that lists every collected page as failed.
FailedAfterAlways(lst, p, success) == Append(lst, p)

\* scrape_gender_names, lines 124-136: failed_pages after one future has been
\* collected.
FailedAfter(lst, p, success) == IF success THEN lst ELSE Append(lst, p)

\* An as_completed loop without its try/except: the exception leaves
\* scrape_gender_names and scrape_gender_worker stores [] for the category.
RaisedUncaught(g, p) ==
    /\ tpc' = [tpc EXCEPT ![g][p] = "col"]
    /\ poolRes' = [poolRes EXCEPT ![g][p] = "exc"]
    /\ completed' = [completed EXCEPT ![g] = <<>>]
    /\ gpc' = [gpc EXCEPT ![g] = "done"]
    /\ UNCHANGED <<failed, retryRes, ri>>

\* scrape_page raised for page (g, p).  In the pool future.result() re-raises
\* and `except Exception` (lines 134-136) adds the page to failed_pages; in the
\* retry pass `except Exception` (lines 162-163) logs the error and the loop
\* goes on with the next failed page.
Raised(g, p) ==
    /\ IF gpc[g] = "pool"
       THEN /\ tpc' = [tpc EXCEPT ![g][p] = "col"]
            /\ poolRes' = [poolRes EXCEPT ![g][p] = "exc"]
            /\ failed' = [failed EXCEPT ![g] = Append(@, p)]
            /\ UNCHANGED <<retryRes, ri>>
       ELSE /\ tpc' = [tpc EXCEPT ![g][p] = "end"]
            /\ retryRes' = [retryRes EXCEPT ![g][p] = "exc"]
            /\ ri' = [ri EXCEPT ![g] = @ + 1]
            /\ UNCHANGED <<poolRes, failed>>
    /\ UNCHANGED <<completed, gpc>>

\* A sink that inserts the rows and leaves the commit to the end of the run.
CommitDeferred(table, pending, names) == table

\* save_names_batch, lines 155-166: executemany and commit; the commit makes
\* the rows of the open transaction and the batch's rows part of the table.
Committed(table, pending, names) == table \o pending \o names

\* A driver that joins the first category thread only.
FirstJoined == gpc["male"] = "done"

\* scrape_all, lines 294-295: every category thread has been joined.
AllJoined == \A g \in Genders : gpc[g] = "done"

\* DataStorage.close_files (called by _cleanup): the handles are closed; closing
\* the SQLite connection discards the rows of an open transaction.
CloseFiles ==
    /\ filesOpen' = FALSE
    /\ dbp' = <<>>

\* A scrape_page that reports a save that did not go through as a failure.
SuccessIfSaved(saved_ok) == saved_ok

\* scrape_page, lines 71-74: after save_names_batch, which returns nothing and
\* raises nothing, success is True whether or not the batch was written.
Success(saved_ok) == TRUE

\* scrape_page returns result['success'] = succ for page (g, p).  A pool
\* attempt's future is yielded by as_completed and the page is added to
\* completed_pages or failed_pages (lines 120-136); a retry attempt's result
\* is handled by _retry_failed_pages (lines 157-161), which moves on to the
\* next failed page.
Return(g, p, succ) ==
    IF gpc[g] = "pool"
    THEN /\ tpc' = [tpc EXCEPT ![g][p] = "col"]
         /\ poolRes' = [poolRes EXCEPT ![g][p] = IF succ THEN "ok" ELSE "fail"]
         /\ completed' = [completed EXCEPT ![g] = IF succ THEN Append(@, p) ELSE @]
         /\ failed' = [failed EXCEPT ![g] = FailedAfter(@, p, succ)]
         /\ UNCHANGED <<retryRes, ri>>
    ELSE /\ tpc' = [tpc EXCEPT ![g][p] = "end"]
         /\ retryRes' = [retryRes EXCEPT ![g][p] = IF succ THEN "ok" ELSE "fail"]
         /\ completed' = [completed EXCEPT ![g] = Promote(@, p, succ)]
         /\ ri' = [ri EXCEPT ![g] = @ + 1]
         /\ UNCHANGED <<poolRes, failed>>

\* ------------------------------------------------------------------- Init
\* No fetch_page call is being followed.
FetchIdle ==
    /\ retry_total = 0
    /\ sent = <<>>
    /\ transport = "idle"
    /\ fetch_result = "idle"

\* No parse_names_from_page call is being followed.
ParserIdle ==
    /\ html_content = <<>>
    /\ gender = "male"
    /\ parsed = None

\* No get_page_count call is being followed.
CountIdle ==
    /\ page_info = None
    /\ count_result = [kind |-> "idle", value |-> None]

\* No ProgressTracker is being followed.
TrackerIdle ==
    /\ progress_file = None
    /\ ckpt = None
    /\ saved = <<>>
    /\ loaded = [kind |-> "idle", value |-> None]

\* No separate DataStorage is being followed.
StoreIdle ==
    /\ store_names = <<>>
    /\ json_file = None
    /\ json_calls = <<>>

\* The configuration module is not being followed.
ConfigIdle ==
    /\ heap = <<>>
    /\ instances = <<>>
    /\ config_instance = None
    /\ handouts = <<>>
    /\ reloads = 0
    /\ sets = 0
    /\ got = [kind |-> "idle", inst |-> 0, path |-> <<>>,
              default |-> [t |-> "none", v |-> 0], value |-> [t |-> "none", v |-> 0]]

\* The state before scrape_all is called, but for its arguments.
InitRun ==
    /\ max_workers \in 1..MaxWorkers
    /\ dpc = "init"
    /\ outcome = "none"
    /\ summary = None
    /\ gpc = [g \in Genders |-> "idle"]
    /\ total = [g \in Genders |-> 0]
    /\ tpc = [g \in Genders |-> [p \in Pages |-> "none"]]
    /\ completed = [g \in Genders |-> <<>>]
    /\ failed = [g \in Genders |-> <<>>]
    /\ ri = [g \in Genders |-> 1]
    /\ extracted = [g \in Genders |-> [p \in Pages |-> None]]
    /\ poolRes = [g \in Genders |-> [p \in Pages |-> "none"]]
    /\ retryRes = [g \in Genders |-> [p \in Pages |-> "none"]]
    /\ saveCalls = [g \in Genders |-> [p \in Pages |-> 0]]
    /\ csvRes = [g \in Genders |-> [p \in Pages |-> "none"]]
    /\ dbRes = [g \in Genders |-> [p \in Pages |-> "none"]]
    /\ lock = None
    /\ scraped_names = <<>>
    /\ csv = <<>>
    /\ dbc = <<>>
    /\ dbp = <<>>
    /\ filesOpen = FALSE
    /\ json = None
    /\ progress = None
    /\ fetchFaults = 0
    /\ ioFaults = 0
    /\ page_args = None
    /\ poolStarts = [g \in Genders |-> [p \in Pages |-> 0]]
    /\ retryStarts = [g \in Genders |-> [p \in Pages |-> 0]]
    /\ delays = [g \in Genders |-> 0]
    /\ discovered = [g \in Genders |-> "none"]
    /\ emptyBody = [g \in Genders |-> [p \in Pages |-> {}]]

Init ==
    /\ max_pages \in Caps
    /\ page_count = None
    /\ InitRun
    /\ FetchIdle /\ ParserIdle /\ CountIdle /\ TrackerIdle /\ StoreIdle /\ ConfigIdle

\* ----------------------------------------------------------------- driver
\* scrape_all, lines 273-291: the sink's files are opened and both category
\* threads are started; each begins with the fetch of its first page.
ScrapeAllStart ==
    /\ dpc = "init"
    /\ dpc' = "join"
    /\ filesOpen' = TRUE
    /\ gpc' = [g \in Genders |-> "discover"]
    /\ UNCHANGED <<pureVars, summary, max_pages, max_workers, page_count, page_args, outcome, json, progress, total, completed, failed, ri,
                   tpc, histVars, auditVars, lock, scraped_names, csv, dbc, dbp, fetchFaults, ioFaults>>

\* scrape_all, lines 294-299: both joins have returned.
JoinThreads ==
    /\ dpc = "join"
    /\ AllJoined
    /\ dpc' = "progress"
    /\ UNCHANGED <<pureVars, summary, max_pages, max_workers, page_count, page_args, outcome, json, progress, threadVars, tpc, histVars, auditVars,
                   sinkVars, fetchFaults, ioFaults>>

\* The scrape_page calls that are inside fetch_page, that is inside
\* self.session.get: MuslimNamesScraper has one NetworkManager (line 50), which
\* has one requests.Session (network.py, line 26), and fetch_page takes no lock.
SessionUsers == {gp \in Genders \X Pages : tpc[gp[1]][gp[2]] = "fetch"}

\* A snapshot with the two categories' lists exchanged.
ProgressSnapshotSwapped ==
    [male |-> completed["female"],
     female |-> completed["male"],
     total_names |-> get_total_count]

\* scrape_all, lines 298-306: the arguments of the final save_progress call.
ProgressSnapshot ==
    [male |-> completed["male"],
     female |-> completed["female"],
     total_names |-> get_total_count]

\* scrape_all, lines 302-306, and ProgressTracker.save_progress: the checkpoint
\* is overwritten, or the write fails and the error is logged.
SaveProgress ==
    /\ dpc = "progress"
    /\ dpc' = "finalize"
    /\ \/ /\ progress' = Some(ProgressSnapshot)
          /\ UNCHANGED ioFaults
       \/ /\ ioFaults < MaxIOFaults
          /\ ioFaults' = ioFaults + 1
          /\ UNCHANGED progress
    /\ UNCHANGED <<pureVars, summary, max_pages, max_workers, page_count, page_args, outcome, json, threadVars, tpc, histVars, auditVars, sinkVars,
                   fetchFaults>>

\* scrape_all, line 309, and DataStorage.save_json_final: the snapshot of
\* scraped_names is written, or the write fails and the error is logged.
SaveJsonFinal ==
    /\ dpc = "finalize"
    /\ dpc' = "summary"
    /\ \/ /\ json' = Some(scraped_names)
          /\ UNCHANGED ioFaults
       \/ /\ ioFaults < MaxIOFaults
          /\ ioFaults' = ioFaults + 1
          /\ UNCHANGED json
    /\ UNCHANGED <<pureVars, summary, max_pages, max_workers, page_count, page_args, outcome, progress, threadVars, tpc, histVars, auditVars, sinkVars,
                   fetchFaults>>

\* scrape_all, lines 321-335: the statistics of the result dict.
Result ==
    [total_names |-> get_total_count,
     boy_names |-> Cardinality({i \in DOMAIN scraped_names : scraped_names[i][1] = "male"}),
     girl_names |-> Cardinality({i \in DOMAIN scraped_names : scraped_names[i][1] = "female"}),
     completed_pages |-> [g \in Genders |-> Len(completed[g])]]

\* scrape_all, lines 311-365: the summary is returned; finally runs _cleanup.
ScrapeAllReturn ==
    /\ dpc = "summary"
    /\ dpc' = "returned"
    /\ outcome' = "result"
    /\ summary' = Some(Result)
    /\ CloseFiles
    /\ UNCHANGED <<pureVars, max_pages, max_workers, page_count, page_args, json, progress, threadVars, tpc, histVars, auditVars, lock,
                   scraped_names, csv, dbc, fetchFaults, ioFaults>>

\* A KeyboardInterrupt raised in the main thread while it blocks in
\* thread.join() (line 295): `except Exception` (line 360) does not catch it,
\* finally runs _cleanup, and the interrupt leaves scrape_all (main.py:151).
\* The category threads and their pools are not stopped.
Interrupt ==
    /\ dpc = "join"
    /\ dpc' = "raised"
    /\ outcome' = "KeyboardInterrupt"
    /\ CloseFiles
    /\ UNCHANGED <<pureVars, summary, max_pages, max_workers, page_count, page_args, json, progress, threadVars, tpc, histVars, auditVars, lock,
                   scraped_names, csv, dbc, fetchFaults, ioFaults>>

\* ------------------------------------------------------- category threads
\* scrape_gender_names, lines 87-118: the fetch of the first page returns.  On
\* failure the harvest returns [] (line 91).  Otherwise total_pages is computed
\* and one task per page of 1..total_pages is submitted to the pool.
Discover(g) ==
    /\ gpc[g] = "discover"
    /\ \/ /\ fetchFaults < MaxFetchFaults
          /\ fetchFaults' = fetchFaults + 1
          /\ discovered' = [discovered EXCEPT ![g] = "fail"]
          /\ DiscoveryFailed(g)
       \/ \E count \in PageCounts :
             LET t == TotalPages(count, max_pages) IN
             /\ t <= MaxPages
             /\ discovered' = [discovered EXCEPT ![g] = "ok"]
             /\ total' = [total EXCEPT ![g] = t]
             /\ tpc' = [tpc EXCEPT ![g] =
                          [p \in Pages |-> IF InSeq(p, PageArgs(t)) THEN "queued"
                                                                   ELSE "none"]]
             /\ gpc' = [gpc EXCEPT ![g] = "pool"]
             /\ UNCHANGED fetchFaults
    /\ UNCHANGED <<driverVars, completed, failed, ri, histVars, poolStarts, retryStarts,
                   delays, emptyBody, sinkVars, ioFaults>>

\* ThreadPoolExecutor: a free worker of the category's pool takes the oldest
\* queued task and scrape_page starts its fetch (lines 117-118, 58-65).
PoolStart(g, p) ==
    /\ gpc[g] = "pool"
    /\ p \in Queued(g)
    /\ \A q \in Queued(g) : p <= q
    /\ WorkerFree(g)
    /\ tpc' = [tpc EXCEPT ![g][p] = "fetch"]
    /\ poolStarts' = [poolStarts EXCEPT ![g][p] = @ + 1]
    /\ UNCHANGED <<driverVars, threadVars, histVars, retryStarts, delays, discovered,
                   emptyBody, sinkVars, fetchFaults, ioFaults>>

\* _retry_failed_pages, lines 153-156: the category thread sleeps for the retry
\* delay and then runs scrape_page itself for the next page of the list.  The
\* page's earlier attempt has returned ("col" from the pool, "end" from an
\* earlier retry).
RetryStart(g) ==
    /\ gpc[g] = "retry"
    /\ ri[g] <= Len(RetryList(g))
    /\ tpc[g][RetryList(g)[ri[g]]] \in {"col", "end"}
    /\ delays' = [delays EXCEPT ![g] = @ + 1]
    /\ tpc' = [tpc EXCEPT ![g][RetryList(g)[ri[g]]] = "fetch"]
    /\ retryStarts' = [retryStarts EXCEPT ![g][RetryList(g)[ri[g]]] = @ + 1]
    /\ UNCHANGED <<driverVars, threadVars, histVars, poolStarts, discovered, emptyBody,
                   sinkVars, fetchFaults, ioFaults>>

\* scrape_page, lines 65, 75-76: fetch_page returned nothing that
\* `if html_content:` accepts (None after a request error).
FetchFail(g, p) ==
    /\ tpc[g][p] = "fetch"
    /\ fetchFaults < MaxFetchFaults
    /\ fetchFaults' = fetchFaults + 1
    /\ Return(g, p, FALSE)
    /\ UNCHANGED <<driverVars, auditVars, gpc, total, extracted, saveCalls, csvRes, dbRes,
                   sinkVars, ioFaults>>

\* scrape_page, lines 65, 75-76: the server answered with a successful
\* response whose body is empty; fetch_page returns '' (network.py:84), which
\* `if html_content:` takes for a failed fetch.
FetchEmpty(g, p) ==
    /\ tpc[g][p] = "fetch"
    /\ fetchFaults < MaxFetchFaults
    /\ fetchFaults' = fetchFaults + 1
    /\ emptyBody' = [emptyBody EXCEPT ![g][p] =
                        @ \cup {IF gpc[g] = "pool" THEN "pool" ELSE "retry"}]
    /\ Return(g, p, FALSE)
    /\ UNCHANGED <<driverVars, poolStarts, retryStarts, delays, discovered, gpc, total,
                   extracted, saveCalls, csvRes, dbRes, sinkVars, ioFaults>>

\* scrape_page, lines 65-74: fetch_page returned content and the parser found n
\* names in it.  With no names the page is done; otherwise save_names_batch is
\* called and waits for the sink's lock.
FetchOk(g, p, n) ==
    /\ tpc[g][p] = "fetch"
    /\ extracted' = [extracted EXCEPT ![g][p] = Some(n)]
    /\ IF n = 0
       THEN Return(g, p, TRUE)
       ELSE /\ tpc' = [tpc EXCEPT ![g][p] = "wait"]
            /\ UNCHANGED <<poolRes, retryRes, completed, failed, ri>>
    /\ UNCHANGED <<driverVars, auditVars, gpc, total, saveCalls, csvRes, dbRes, sinkVars,
                   fetchFaults, ioFaults>>

\* save_names_batch, lines 144-152 and 170-171: the lock is taken, the batch is
\* added to scraped_names and its rows are written to the CSV file and
\* flushed.  A write that raises after k rows (an I/O error, or a file closed
\* by close_files) ends the batch: the error is logged, the lock is released
\* and scrape_page returns success (line 74).
SaveCsv(g, p) ==
    LET names == Names(g, p, extracted[g][p][1]) IN
    /\ tpc[g][p] = "wait"
    /\ LockFree
    /\ scraped_names' = Extend(scraped_names, names)
    /\ saveCalls' = [saveCalls EXCEPT ![g][p] = @ + 1]
    /\ \/ /\ filesOpen
          /\ csv' = csv \o names
          /\ csvRes' = [csvRes EXCEPT ![g][p] = "ok"]
          /\ lock' = Some(<<g, p>>)
          /\ tpc' = [tpc EXCEPT ![g][p] = "db"]
          /\ UNCHANGED <<ioFaults, poolRes, retryRes, completed, failed, ri>>
       \/ /\ filesOpen
          /\ ioFaults < MaxIOFaults
          /\ ioFaults' = ioFaults + 1
          /\ \E k \in 0..Len(names) : csv' = csv \o Prefix(names, k)
          /\ csvRes' = [csvRes EXCEPT ![g][p] = "err"]
          /\ UNCHANGED lock
          /\ Return(g, p, Success(FALSE))
       \/ /\ ~filesOpen
          /\ csvRes' = [csvRes EXCEPT ![g][p] = "closed"]
          /\ UNCHANGED <<lock, csv, ioFaults>>
          /\ Return(g, p, Success(FALSE))
    /\ UNCHANGED <<driverVars, auditVars, gpc, total, extracted, dbRes, dbc, dbp, filesOpen,
                   fetchFaults>>

\* save_names_batch, lines 155-171: the rows are inserted and the transaction
\* is committed, which also commits rows an earlier failed batch left in it.
\* An insert or commit that raises leaves j rows in the open transaction; on a
\* closed connection nothing is inserted.  The lock is released and
\* scrape_page returns success (line 74).
SaveDb(g, p) ==
    LET names == Names(g, p, extracted[g][p][1]) IN
    /\ tpc[g][p] = "db"
    /\ \/ /\ filesOpen
          /\ dbc' = Committed(dbc, dbp, names)
          /\ dbp' = <<>>
          /\ dbRes' = [dbRes EXCEPT ![g][p] = "ok"]
          /\ UNCHANGED ioFaults
       \/ /\ filesOpen
          /\ ioFaults < MaxIOFaults
          /\ ioFaults' = ioFaults + 1
          /\ \E j \in 0..Len(names) : dbp' = dbp \o Prefix(names, j)
          /\ dbRes' = [dbRes EXCEPT ![g][p] = "err"]
          /\ UNCHANGED dbc
       \/ /\ ~filesOpen
          /\ dbRes' = [dbRes EXCEPT ![g][p] = "closed"]
          /\ UNCHANGED <<dbc, dbp, ioFaults>>
    /\ lock' = None
    /\ Return(g, p, Success(csvRes[g][p] = "ok" /\ dbRes'[g][p] = "ok"))
    /\ UNCHANGED <<driverVars, auditVars, gpc, total, extracted, saveCalls, csvRes,
                   scraped_names, csv, filesOpen, fetchFaults>>

\* scrape_gender_names, lines 137-147: every future has been collected and the
\* executor is shut down; the retry pass follows if a page failed, else the
\* harvest returns completed_pages.
PoolExit(g) ==
    /\ gpc[g] = "pool"
    /\ PoolDrained(g)
    /\ gpc' = [gpc EXCEPT ![g] = IF RetryList(g) # <<>> THEN "retry" ELSE "done"]
    /\ UNCHANGED <<driverVars, total, completed, failed, ri, tpc, histVars, auditVars,
                   sinkVars, fetchFaults, ioFaults>>

\* _retry_failed_pages has gone through the list; scrape_gender_names returns
\* completed_pages (lines 146-147) and scrape_gender_worker stores it.
RetryExit(g) ==
    /\ gpc[g] = "retry"
    /\ ri[g] > Len(RetryList(g))
    /\ gpc' = [gpc EXCEPT ![g] = "done"]
    /\ UNCHANGED <<driverVars, total, completed, failed, ri, tpc, histVars, auditVars,
                   sinkVars, fetchFaults, ioFaults>>

\* ------------------------------------------------------------------- Next
Next ==
    \/ ScrapeAllStart
    \/ JoinThreads
    \/ SaveProgress
    \/ SaveJsonFinal
    \/ ScrapeAllReturn
    \/ Interrupt
    \/ \E g \in Genders : Discover(g)
    \/ \E g \in Genders, p \in Pages : PoolStart(g, p)
    \/ \E g \in Genders : RetryStart(g)
    \/ \E g \in Genders, p \in Pages : FetchFail(g, p)
    \/ \E g \in Genders, p \in Pages, n \in 0..MaxNames : FetchOk(g, p, n)
    \/ \E g \in Genders, p \in Pages : SaveCsv(g, p)
    \/ \E g \in Genders, p \in Pages : SaveDb(g, p)
    \/ \E g \in Genders : PoolExit(g)
    \/ \E g \in Genders : RetryExit(g)

Spec == Init /\ [][Next]_vars

\* ------------------------------------------------------- fair scheduling
\* The steps of category g's harvest: its thread and its pool workers.
HarvestStep(g) ==
    \/ Discover(g)
    \/ \E p \in Pages : PoolStart(g, p)
    \/ RetryStart(g)
    \/ \E p \in Pages : FetchFail(g, p)
    \/ \E p \in Pages, n \in 0..MaxNames : FetchOk(g, p, n)
    \/ \E p \in Pages : SaveCsv(g, p)
    \/ \E p \in Pages : SaveDb(g, p)
    \/ PoolExit(g)
    \/ RetryExit(g)

\* A worker inside the sink's write section leaves it.
LeaveSink == \E g \in Genders, p \in Pages : SaveDb(g, p)

\* Runs with one worker per pool: the two categories still contend for the
\* sink's lock, and each harvest has its pool phase and its retry pass.
InitFair ==
    /\ Init
    /\ max_workers = 1

\* The threads of the male category are scheduled and their fetches return
\* (requests time out, network.py:80-83), and a thread that holds the sink's
\* lock releases it.  Nothing is assumed of the female category's fetches.
FairSpec ==
    InitFair /\ [][Next]_vars /\ WF_vars(HarvestStep("male")) /\ WF_vars(LeaveSink)

\* Every step of the run but the user's interrupt.
RunStep ==
    \/ ScrapeAllStart
    \/ JoinThreads
    \/ SaveProgress
    \/ SaveJsonFinal
    \/ ScrapeAllReturn
    \/ \E g \in Genders : HarvestStep(g)

\* Every thread of the run is scheduled and every fetch returns.
FairRunSpec == InitFair /\ [][Next]_vars /\ WF_vars(RunStep)

\* ------------------------------------------- runs where scrape_page raises
\* scrape_page raises while it fetches or parses the page: an exception that
\* fetch_page does not catch, or one raised by the parser outside its per-row
\* try.  (save_names_batch catches its own exceptions, see SaveCsv, SaveDb.)
PageRaises(g, p) ==
    /\ tpc[g][p] = "fetch"
    /\ fetchFaults < MaxFetchFaults
    /\ fetchFaults' = fetchFaults + 1
    /\ Raised(g, p)
    /\ UNCHANGED <<driverVars, auditVars, total, extracted, saveCalls, csvRes, dbRes,
                   sinkVars, ioFaults>>

NextRaise ==
    \/ Next
    \/ \E g \in Genders, p \in Pages : PageRaises(g, p)

\* Runs with one worker per pool, as in FairSpec.
SpecRaise == InitFair /\ [][NextRaise]_vars

\* ------------------------------------------- runs with empty response bodies
\* The same pipeline with one page per category, where a fetch may also get a
\* successful response with an empty body.
InitBody ==
    /\ Init
    /\ max_pages = Some(1)

NextBody ==
    \/ Next
    \/ \E g \in Genders, p \in Pages : FetchEmpty(g, p)

SpecBody == InitBody /\ [][NextBody]_vars

\* ------------------------------------------------- dispatch of one harvest
\* scrape_gender_names from the first page's page count to the task list, for
\* every page count get_page_count can return and every max_pages a caller can
\* pass, within -1..MaxCount.
CountInputs == {None} \cup {Some(n) : n \in -1..MaxCount}
CapInputs == {None} \cup {Some(n) : n \in -1..MaxCount}

InitDispatch ==
    /\ max_pages \in CapInputs
    /\ page_count \in CountInputs
    /\ InitRun
    /\ FetchIdle /\ ParserIdle /\ CountIdle /\ TrackerIdle /\ StoreIdle /\ ConfigIdle

\* scrape_gender_names, lines 93-104: total_pages is computed and page_args is
\* built; line 118 submits one task per element.
BuildPageArgs ==
    /\ page_args = None
    /\ page_args' = Some(PageArgs(TotalPages(page_count, max_pages)))
    /\ UNCHANGED <<pureVars, summary, max_pages, max_workers, page_count, dpc, outcome, json, progress,
                   threadVars, tpc, histVars, auditVars, sinkVars, fetchFaults, ioFaults>>

NextDispatch == BuildPageArgs

SpecDispatch == InitDispatch /\ [][NextDispatch]_vars

\* ------------------------------------------------ the sink's write section
\* save_names_batch row by row.  The run is taken up at the moment every
\* category's pool has its first pages in flight, each fetching its page.
SinkPages == 1..Min(MaxPages, MaxWorkers)

InitSink ==
    /\ max_pages = None
    /\ max_workers = MaxWorkers
    /\ page_count = None
    /\ page_args = None
    /\ dpc = "join"
    /\ outcome = "none"
    /\ summary = None
    /\ gpc = [g \in Genders |-> "pool"]
    /\ total = [g \in Genders |-> Min(MaxPages, MaxWorkers)]
    /\ tpc = [g \in Genders |-> [p \in Pages |-> IF p \in SinkPages THEN "fetch"
                                                                  ELSE "none"]]
    /\ completed = [g \in Genders |-> <<>>]
    /\ failed = [g \in Genders |-> <<>>]
    /\ ri = [g \in Genders |-> 1]
    /\ extracted = [g \in Genders |-> [p \in Pages |-> None]]
    /\ poolRes = [g \in Genders |-> [p \in Pages |-> "none"]]
    /\ retryRes = [g \in Genders |-> [p \in Pages |-> "none"]]
    /\ saveCalls = [g \in Genders |-> [p \in Pages |-> 0]]
    /\ csvRes = [g \in Genders |-> [p \in Pages |-> "none"]]
    /\ dbRes = [g \in Genders |-> [p \in Pages |-> "none"]]
    /\ lock = None
    /\ scraped_names = <<>>
    /\ csv = <<>>
    /\ dbc = <<>>
    /\ dbp = <<>>
    /\ filesOpen = TRUE
    /\ json = None
    /\ progress = None
    /\ fetchFaults = 0
    /\ ioFaults = 0
    /\ poolStarts = [g \in Genders |-> [p \in Pages |-> IF p \in SinkPages THEN 1 ELSE 0]]
    /\ retryStarts = [g \in Genders |-> [p \in Pages |-> 0]]
    /\ delays = [g \in Genders |-> 0]
    /\ discovered = [g \in Genders |-> "ok"]
    /\ emptyBody = [g \in Genders |-> [p \in Pages |-> {}]]
    /\ FetchIdle /\ ParserIdle /\ CountIdle /\ TrackerIdle /\ StoreIdle /\ ConfigIdle

\* save_names_batch, lines 144-147: `with self.lock` is entered and the batch
\* is added to scraped_names.
SinkEnter(g, p) ==
    /\ tpc[g][p] = "wait"
    /\ LockFree
    /\ lock' = Some(<<g, p>>)
    /\ scraped_names' = Extend(scraped_names, Names(g, p, extracted[g][p][1]))
    /\ saveCalls' = [saveCalls EXCEPT ![g][p] = @ + 1]
    /\ tpc' = [tpc EXCEPT ![g][p] = "csv"]
    /\ UNCHANGED <<driverVars, auditVars, threadVars, extracted, poolRes, retryRes,
                   csvRes, dbRes, csv, dbc, dbp, filesOpen, fetchFaults, ioFaults>>

\* save_names_batch, lines 150-152 and 170-171: one writerow call; after the
\* last row the file is flushed.  A writerow or flush that raises (an I/O
\* error, or a file closed by close_files) ends the batch: the error is
\* logged, the lock is released and scrape_page returns success.
SinkWriteRow(g, p) ==
    LET names == Names(g, p, extracted[g][p][1])
        k == CountOf(csv, g, p)
    IN
    /\ tpc[g][p] = "csv"
    /\ \/ /\ filesOpen
          /\ csv' = Append(csv, names[k + 1])
          /\ IF k + 1 = Len(names)
             THEN /\ csvRes' = [csvRes EXCEPT ![g][p] = "ok"]
                  /\ tpc' = [tpc EXCEPT ![g][p] = "db"]
             ELSE UNCHANGED <<csvRes, tpc>>
          /\ UNCHANGED <<lock, ioFaults, poolRes, retryRes, completed, failed, ri>>
       \/ /\ filesOpen
          /\ ioFaults < MaxIOFaults
          /\ ioFaults' = ioFaults + 1
          /\ \E flushed \in BOOLEAN :
                csv' = IF flushed /\ k + 1 = Len(names) THEN Append(csv, names[k + 1])
                                                       ELSE csv
          /\ csvRes' = [csvRes EXCEPT ![g][p] = "err"]
          /\ lock' = None
          /\ Return(g, p, Success(FALSE))
       \/ /\ ~filesOpen
          /\ csvRes' = [csvRes EXCEPT ![g][p] = "closed"]
          /\ lock' = None
          /\ UNCHANGED <<csv, ioFaults>>
          /\ Return(g, p, Success(FALSE))
    /\ UNCHANGED <<driverVars, auditVars, gpc, total, extracted, saveCalls, dbRes,
                   scraped_names, dbc, dbp, filesOpen, fetchFaults>>

NextSink ==
    \/ Interrupt
    \/ \E g \in Genders, p \in Pages, n \in 0..MaxRows : FetchOk(g, p, n)
    \/ \E g \in Genders, p \in Pages : SinkEnter(g, p)
    \/ \E g \in Genders, p \in Pages : SinkWriteRow(g, p)
    \/ \E g \in Genders, p \in Pages : SaveDb(g, p)

SpecSink == InitSink /\ [][NextSink]_vars

\* ------------------------------------------------------ one fetch_page call
\* NetworkManager.fetch_page for a GET through the session's HTTPAdapter, whose
\* urllib3 Retry strategy is built by _create_session.
\*
\* NetworkManager.__init__, line 22: max_retries or the configured total.
RetryTotal(arg) == IF arg = None \/ arg[1] = 0 THEN DefaultRetryTotal ELSE arg[1]

\* _create_session, lines 39 and 47: the status_forcelist of the configuration.
StatusForcelist == {429, 500, 502, 503, 504}

\* urllib3's Retry.RETRY_AFTER_STATUS_CODES, in force because _create_session
\* leaves respect_retry_after_header at its default.
RetryAfterStatusCodes == {413, 429, 503}

\* What one send of the request can meet: a connection error or timeout, or a
\* response with a status and possibly a Retry-After header.
Statuses == {200, 304, 404, 413, 429, 500}
Outcomes ==
    {[kind |-> "error", status |-> 0, retry_after |-> FALSE]} \cup
    {[kind |-> "response", status |-> st, retry_after |-> ra] :
        st \in Statuses, ra \in BOOLEAN}

\* Retry.is_retry for a GET with `left` retries remaining: the status is in
\* the forcelist, or retries remain and the response has a Retry-After header
\* and one of the statuses that header is honoured for.
IsRetry(o, left) ==
    \/ o.status \in StatusForcelist
    \/ left > 0 /\ o.retry_after /\ o.status \in RetryAfterStatusCodes

\* response.raise_for_status(), line 84: HTTPError for a 4xx or 5xx status.
RaisesForStatus(status) == status >= 400 /\ status < 600

\* fetch_page, line 86: except requests.exceptions.RequestException, the base
\* class of ConnectionError (and the timeouts), RetryError and HTTPError.
Caught(exc) == exc \in {"ConnectionError", "RetryError", "HTTPError"}

InitFetch ==
    /\ max_pages = None
    /\ page_count = None
    /\ InitRun
    /\ \E arg \in {None} \cup {Some(n) : n \in 0..MaxRetries} :
          retry_total = RetryTotal(arg)
    /\ sent = <<>>
    /\ transport = "sending"
    /\ fetch_result = "pending"
    /\ ParserIdle /\ CountIdle /\ TrackerIdle /\ StoreIdle /\ ConfigIdle

\* session.get, line 83: the request is sent (again, after the backoff sleep)
\* and meets outcome o.  An error, or a response that is_retry accepts, uses
\* up one retry and the request is sent again; when none is left the adapter
\* raises ConnectionError or RetryError.  Any other response is returned.
TransportSend(o) ==
    LET left == retry_total - Len(sent) IN
    /\ transport = "sending"
    /\ sent' = Append(sent, o)
    /\ transport' =
          IF o.kind = "error"
          THEN IF left > 0 THEN "sending" ELSE "ConnectionError"
          ELSE IF IsRetry(o, left)
               THEN IF left > 0 THEN "sending" ELSE "RetryError"
               ELSE "response"
    /\ UNCHANGED <<pipelineVars, configVars, parserVars, countVars, trackerVars, storeVars, retry_total,
                   fetch_result>>

\* fetch_page, lines 83-88: raise_for_status on the response, the text is
\* returned; an exception the except clause catches is logged and None is
\* returned.
FetchReturn ==
    LET exc == IF transport # "response" THEN transport
               ELSE IF RaisesForStatus(sent[Len(sent)].status) THEN "HTTPError"
               ELSE "none"
    IN
    /\ transport \notin {"idle", "sending"}
    /\ fetch_result = "pending"
    /\ fetch_result' = IF exc = "none" THEN "content"
                       ELSE IF Caught(exc) THEN "None"
                       ELSE "raised"
    /\ UNCHANGED <<pipelineVars, configVars, parserVars, countVars, trackerVars, storeVars, retry_total,
                   sent, transport>>

NextFetch ==
    \/ \E o \in Outcomes : TransportSend(o)
    \/ FetchReturn

SpecFetch == InitFetch /\ [][NextFetch]_vars

\* ------------------------------------------- one parse_names_from_page call
\* Text is a sequence of characters.  str.strip(), lines 47, 51 and 55.
Whitespace == {" ", "\n"}

RECURSIVE LStrip(_)
LStrip(s) == IF s # <<>> /\ Head(s) \in Whitespace THEN LStrip(Tail(s)) ELSE s

RECURSIVE RStrip(_)
RStrip(s) ==
    IF s # <<>> /\ s[Len(s)] \in Whitespace THEN RStrip(SubSeq(s, 1, Len(s) - 1)) ELSE s

Strip(s) == RStrip(LStrip(s))

\* str.split(c) for a one-character separator, line 55: the pieces between
\* the separators, empty pieces included.
RECURSIVE SplitChar(_, _)
SplitChar(s, c) ==
    IF s = <<>> THEN << <<>> >>
    ELSE LET rest == SplitChar(Tail(s), c) IN
         IF Head(s) = c THEN << <<>> >> \o rest
         ELSE << <<Head(s)>> \o Head(rest) >> \o Tail(rest)

\* str.startswith, line 60.
StartsWith(s, prefix) == Len(s) >= Len(prefix) /\ SubSeq(s, 1, Len(prefix)) = prefix

Http == <<"h", "t", "t", "p">>
\* HTMLParser.__init__, line 19: self.base_url.
BaseUrl == Http \o <<"s", ":">>

\* A div.name_row element: the class of its <a> element ("none": it has no
\* such element) with the element's text and href, the text of its
\* b.name_arabic element if it has one, the annotation text that follows, and
\* the text between them.
Anchors == {"none", "name_boys", "name_girls"}
Labels == {<<" ">>, <<" ", "A">>}
Hrefs == {<<>>, <<"/">>, Http \o <<":">>}
Separators == {<<>>, <<"\n">>}
Rows ==
    {r \in [anchor : Anchors, label : Labels, href : Hrefs, sep1 : Separators,
            arabic : {None, Some(<<"R">>)}, sep2 : Separators,
            note : {<<>>, <<"M">>}] :
        r.anchor = "none" => (r.label = <<" ">> /\ r.href = <<>>)}
PageContents == UNION {[1..n -> Rows] : n \in 0..MaxNameRows}

\* row.get_text(), line 54: the text of the row's elements in document order.
RowText(row) ==
    (IF row.anchor = "none" THEN <<>> ELSE row.label) \o row.sep1
        \o (IF row.arabic = None THEN <<>> ELSE row.arabic[1]) \o row.sep2 \o row.note

\* Line 42: the class of the category's <a> element.
ClassName(g) == IF g = "male" THEN "name_boys" ELSE "name_girls"

\* A lookup that accepts an <a> element of either category.
HasMarkerAny(row, g) == row.anchor # "none"

\* Lines 43-45: row.find('a', class_=class_name) finds an element.
HasMarker(row, g) == row.anchor = ClassName(g)

\* Line 55: the stripped non-blank lines of the row's text.
Lines(text) ==
    LET parts == SplitChar(text, "\n")
        stripped == [i \in 1..Len(parts) |-> Strip(parts[i])]
    IN SelectSeq(stripped, LAMBDA l : l # <<>>)

\* Line 56: the last line when there is more than one.
Meaning(row) ==
    LET lines == Lines(RowText(row)) IN
    IF Len(lines) > 1 THEN lines[Len(lines)] ELSE <<>>

\* Lines 59-61: a relative href is prefixed with the base URL.
Url(row) ==
    IF row.href # <<>> /\ ~StartsWith(row.href, Http) THEN BaseUrl \o row.href
    ELSE row.href

\* Lines 47-69: the record of a row.
NameData(row, g) ==
    [english_name |-> Strip(row.label),
     arabic_name |-> IF row.arabic = None THEN <<>> ELSE Strip(row.arabic[1]),
     meaning |-> Meaning(row),
     url |-> Url(row),
     gender |-> g]

\* Lines 39-77: the records of the rows that have the category's <a> element,
\* in page order.
RECURSIVE ParseRows(_, _)
ParseRows(rows, g) ==
    IF rows = <<>> THEN <<>>
    ELSE (IF HasMarker(Head(rows), g) THEN <<NameData(Head(rows), g)>> ELSE <<>>)
             \o ParseRows(Tail(rows), g)

InitParser ==
    /\ max_pages = None
    /\ page_count = None
    /\ InitRun
    /\ FetchIdle /\ CountIdle /\ TrackerIdle /\ StoreIdle /\ ConfigIdle
    /\ html_content \in PageContents
    /\ gender \in Genders
    /\ parsed = None

\* parse_names_from_page, lines 22-77.  Empty content (line 24) and content
\* without a name row both return the empty list.
parse_names_from_page ==
    /\ parsed = None
    /\ parsed' = Some(IF html_content = <<>> THEN <<>>
                      ELSE ParseRows(html_content, gender))
    /\ UNCHANGED <<pipelineVars, configVars, fetchVars, countVars, trackerVars, storeVars, html_content,
                   gender>>

NextParser == parse_names_from_page

SpecParser == InitParser /\ [][NextParser]_vars

\* --------------------------------------------------- one get_page_count call
\* The characters of a pagination text.
Alphabet == {"o", "f", " ", "1", "2", "x", "-"}
Texts == UNION {[1..n -> Alphabet] : n \in 0..MaxText}

\* Line 84 ff.: the separator the text is split on.
Of == <<"o", "f">>

\* The character of s at which the first occurrence of sep starts, 0 if none.
FindStr(s, sep) ==
    LET hits == {k \in 1..(Len(s) - Len(sep) + 1) :
                    SubSeq(s, k, k + Len(sep) - 1) = sep}
    IN IF hits = {} THEN 0 ELSE CHOOSE k \in hits : \A h \in hits : k <= h

\* Line 90: sep in text.
Contains(s, sep) == FindStr(s, sep) # 0

\* Line 91: text.split(sep).
RECURSIVE SplitStr(_, _)
SplitStr(s, sep) ==
    LET k == FindStr(s, sep) IN
    IF k = 0 THEN <<s>>
    ELSE <<SubSeq(s, 1, k - 1)>> \o SplitStr(SubSeq(s, k + Len(sep), Len(s)), sep)

\* Line 93: str.split() without argument, the whitespace-separated words.
RECURSIVE SplitWhitespace(_)
SplitWhitespace(s) ==
    LET t == LStrip(s)
        stops == {k \in 1..Len(t) : t[k] \in Whitespace}
        n == IF stops = {} THEN Len(t)
             ELSE (CHOOSE k \in stops : \A h \in stops : k <= h) - 1
    IN IF t = <<>> THEN <<>>
       ELSE <<SubSeq(t, 1, n)>> \o SplitWhitespace(SubSeq(t, n + 1, Len(t)))

DigitValue == [c \in {"0", "1", "2"} |-> CASE c = "0" -> 0 [] c = "1" -> 1 [] c = "2" -> 2]

\* The value of a non-empty sequence of decimal digits.
RECURSIVE Decimal(_)
Decimal(ds) ==
    IF Len(ds) = 1 THEN DigitValue[ds[1]]
    ELSE 10 * Decimal(SubSeq(ds, 1, Len(ds) - 1)) + DigitValue[ds[Len(ds)]]

IsDigits(ds) == ds # <<>> /\ \A k \in 1..Len(ds) : ds[k] \in DOMAIN DigitValue

\* Line 93: int(word), the value of an optionally signed decimal numeral;
\* None stands for the ValueError of any other word.
IntOf(word) ==
    IF IsDigits(word) THEN Some(Decimal(word))
    ELSE IF word # <<>> /\ word[1] = "-" /\ IsDigits(Tail(word))
         THEN Some(0 - Decimal(Tail(word)))
    ELSE None

\* An except clause for ValueError only.
CountCaughtValueError(exc) == exc = "ValueError"

\* Line 94: except Exception.
CountCaught(exc) == exc \in {"ValueError", "IndexError"}

\* A call returned value v.
Returned(v) == [kind |-> "returned", value |-> v]

\* Lines 88-96 for the text of the pagination element.
CountOfText(text) ==
    LET parts == SplitStr(text, Of)
        words == SplitWhitespace(Strip(parts[2]))
        exc == IF words = <<>> THEN "IndexError"
               ELSE IF IntOf(words[1]) = None THEN "ValueError"
               ELSE "none"
    IN IF ~Contains(text, Of) \/ Len(parts) <= 1 THEN Returned(None)
       ELSE IF exc = "none" THEN Returned(IntOf(words[1]))
       ELSE IF CountCaught(exc) THEN Returned(None)
       ELSE [kind |-> "raised", value |-> None]

\* The page handed to get_page_count is a fetched first page (scraper.py,
\* line 89 returns before the call when the fetch gave none); page_info is its
\* first div whose style contains text-align:center.
InitCount ==
    /\ max_pages = None
    /\ page_count = None
    /\ InitRun
    /\ FetchIdle /\ ParserIdle /\ TrackerIdle /\ StoreIdle /\ ConfigIdle
    /\ page_info \in {None} \cup {Some(t) : t \in Texts}
    /\ count_result = [kind |-> "pending", value |-> None]

\* get_page_count, lines 79-96.
get_page_count ==
    /\ count_result.kind = "pending"
    /\ count_result' = IF page_info = None THEN Returned(None)
                       ELSE CountOfText(page_info[1])
    /\ UNCHANGED <<pipelineVars, configVars, fetchVars, parserVars, trackerVars, storeVars, page_info>>

NextCount == get_page_count

SpecCount == InitCount /\ [][NextCount]_vars

\* ------------------------------------------------------ one ProgressTracker
\* The arguments of a save_progress call.
PageLists == {<<>>, <<1>>, <<2, 1>>}
SaveArgs ==
    [completed_pages_male : PageLists, completed_pages_female : PageLists,
     total_names : 0..(MaxPages * MaxNames)]

\* save_progress, lines 31-36: progress_data; the timestamp is the ordinal of
\* the call.
ProgressData(args, now) ==
    [completed_pages_male |-> args.completed_pages_male,
     completed_pages_female |-> args.completed_pages_female,
     total_names_scraped |-> args.total_names,
     last_updated |-> now]

ProgressKeys ==
    <<"completed_pages_male", "completed_pages_female", "total_names_scraped",
      "last_updated">>

\* json.dump, line 40: the document, one member per key in insertion order.
Dump(data) == [i \in 1..Len(ProgressKeys) |-> <<ProgressKeys[i], data[ProgressKeys[i]]>>]

\* A document is complete when it has every member; a shorter one is what a
\* dump that raised has left behind.
Complete(doc) == Len(doc) = Len(ProgressKeys)

\* json.load, line 78, of a file's documents: the dict of the single complete
\* document; None stands for the JSONDecodeError of an empty or truncated
\* file and of trailing data.
Load(docs) ==
    IF Len(docs) = 1 /\ Complete(docs[1])
    THEN Some([key \in {docs[1][i][1] : i \in 1..Len(docs[1])} |->
                  LET i == CHOOSE j \in 1..Len(docs[1]) : docs[1][j][1] = key
                  IN docs[1][i][2]])
    ELSE None

\* open(self.progress_file, 'w'), line 39: the file is created or truncated.
OpenWrite(file) == <<>>

\* How the write of a save_progress call can go: it succeeds, open raises
\* (the file is as it was), or json.dump raises after open truncated the file.
WriteOutcomes == {"ok", "open_raised", "dump_raised"}

\* scrape_all builds its tracker with the configured path (scraper.py, line
\* 278); no checkpoint file exists yet.
InitTracker ==
    /\ max_pages = None
    /\ page_count = None
    /\ InitRun
    /\ FetchIdle /\ ParserIdle /\ CountIdle /\ StoreIdle /\ ConfigIdle
    /\ progress_file = Some("scraping_progress.json")
    /\ ckpt = None
    /\ saved = <<>>
    /\ loaded = [kind |-> "idle", value |-> None]

\* save_progress, lines 26-42.  Without a path nothing is written (line 28);
\* an exception of the write is logged (lines 41-42).
save_progress(args, wrote) ==
    LET doc == Dump(ProgressData(args, Len(saved) + 1)) IN
    /\ Len(saved) < MaxSaves
    /\ saved' = Append(saved, [args |-> args, wrote |-> wrote])
    /\ ckpt' = IF progress_file = None \/ wrote = "open_raised" THEN ckpt
               ELSE IF wrote = "dump_raised"
                    THEN Some(Append(OpenWrite(ckpt), Prefix(doc, 1)))
               ELSE Some(Append(OpenWrite(ckpt), doc))
    /\ loaded' = [kind |-> "idle", value |-> None]
    /\ UNCHANGED <<pipelineVars, configVars, fetchVars, parserVars, countVars, storeVars, progress_file>>

\* load_progress, lines 71-80: None without a path, when the file does not
\* exist and when its text is not a JSON document.
load_progress ==
    /\ loaded.kind = "idle"
    /\ loaded' = Returned(IF progress_file = None \/ ckpt = None THEN None
                          ELSE Load(ckpt[1]))
    /\ UNCHANGED <<pipelineVars, configVars, fetchVars, parserVars, countVars, storeVars, progress_file,
                   ckpt, saved>>

NextTracker ==
    \/ \E args \in SaveArgs, wrote \in WriteOutcomes : save_progress(args, wrote)
    \/ load_progress

SpecTracker == InitTracker /\ [][NextTracker]_vars

\* ------------------------------------------- save_json_final on one DataStorage
\* The records a DataStorage can hold: what parse_names_from_page emits.
StoreRecords ==
    {NameData(row, g) : row \in {r \in Rows : r.anchor # "none"}, g \in Genders}
StoredNames == UNION {[1..n -> StoreRecords] : n \in 0..MaxStored}

\* The keys of a record, in the order name_data is built (parser.py, 63-69).
NameKeys == <<"english_name", "arabic_name", "meaning", "url", "gender">>

\* json.dump(self.scraped_names, ...), line 178: the document, one object per
\* record with one member per key in insertion order.
JsonDump(names) ==
    [i \in 1..Len(names) |->
        [k \in 1..Len(NameKeys) |-> <<NameKeys[k], names[i][NameKeys[k]]>>]]

\* A file opened for appending keeps the documents it holds.
OpenJsonAppend(file) == IF file = None THEN <<>> ELSE file[1]

\* open(json_path, 'w', ...), line 177: the file is created or truncated.
OpenJson(file) == <<>>

\* The harvests are over: the DataStorage holds their records and no JSON file
\* has been written.
InitJson ==
    /\ max_pages = None
    /\ page_count = None
    /\ InitRun
    /\ FetchIdle /\ ParserIdle /\ CountIdle /\ TrackerIdle /\ ConfigIdle
    /\ store_names \in StoredNames
    /\ json_file = None
    /\ json_calls = <<>>

\* save_json_final, lines 173-181: the snapshot is written; or open raises
\* (the file is as it was) or json.dump raises after open truncated the file,
\* and the exception is logged.
save_json_final(wrote) ==
    LET doc == JsonDump(store_names)
        after == IF wrote = "open_raised" THEN json_file
                 ELSE IF wrote = "dump_raised"
                      THEN Some(Append(OpenJson(json_file), Prefix(doc, Len(doc) - 1)))
                 ELSE Some(Append(OpenJson(json_file), doc))
    IN
    /\ Len(json_calls) < MaxJsonCalls
    /\ wrote = "dump_raised" => store_names # <<>>
    /\ json_file' = after
    /\ json_calls' = Append(json_calls, [wrote |-> wrote, names |-> store_names,
                                         count |-> Len(store_names), file |-> after])
    /\ UNCHANGED <<pipelineVars, configVars, fetchVars, parserVars, countVars, trackerVars,
                   store_names>>

NextJson == \E wrote \in WriteOutcomes : save_json_final(wrote)

SpecJson == InitJson /\ [][NextJson]_vars

\* ------------------------------------------------------ the configuration module
\* A value held by a dict or passed to a call: an "int" or a "str" (v tells
\* the values apart), "none" for None, or a "ref" to the dict object heap[v].
Value(t, v) == [t |-> t, v |-> v]
EmptyDict == [k \in {} |-> Value("none", 0)]

\* Keys are texts. Those of DEFAULT_CONFIG followed here, lines 31-40, each
\* shortened to one letter.
Key == [scraper |-> <<"s">>, max_workers |-> <<"w">>, urls |-> <<"u">>,
        boy_names |-> <<"b">>]

\* DEFAULT_CONFIG, lines 24-173: the class-level dict, its 'scraper' dict and
\* the 'urls' dict inside that one are three objects, the first, second and
\* third of the heap.
DEFAULT_CONFIG ==
    << (Key.scraper :> Value("ref", 2)),
       (Key.max_workers :> Value("int", DefaultMaxWorkers)) @@ (Key.urls :> Value("ref", 3)),
       (Key.boy_names :> Value("str", 1)) >>

\* What yaml.safe_load returns for the configuration file, lines 222-223: its
\* top-level scalars and its sections of scalars. With no file, no yaml module
\* or an empty file there is nothing to merge.
YamlFiles ==
    { [top |-> EmptyDict, sub |-> EmptyDict],
      [top |-> EmptyDict, sub |-> (Key.scraper :> (Key.max_workers :> Value("int", 4)))],
      [top |-> (Key.boy_names :> Value("int", 5)), sub |-> EmptyDict] }

\* merge_dict, lines 237-245, for the sections of the override: a section that
\* is a dict on both sides is merged into a copy of the default's dict, any
\* other one is the override's own dict.
RECURSIVE MergeSections(_, _, _, _)
MergeSections(h, result, sub, keys) ==
    IF keys = {} THEN h
    ELSE LET key == CHOOSE k \in keys : TRUE
             old == h[result]
             base == IF key \in DOMAIN old /\ old[key].t = "ref"
                     THEN h[old[key].v] ELSE EmptyDict
             merged == Len(h) + 1
         IN MergeSections(Append([h EXCEPT ![result] = (key :> Value("ref", merged)) @@ old],
                                 sub[key] @@ base),
                          result, sub, keys \ {key})

\* Config.__init__ with _load_config and _merge_config, lines 183-247:
\* self._config is a copy of DEFAULT_CONFIG's top-level dict (its values are
\* the same objects), replaced by merge_dict's result when the file has
\* content.
NewConfig(h, file) ==
    LET copy == Len(h) + 1
        h1 == Append(h, h[1])
        result == Len(h1) + 1
        h2 == Append(h1, file.top @@ h1[copy])
    IN IF DOMAIN file.top = {} /\ DOMAIN file.sub = {} THEN [heap |-> h1, root |-> copy]
       ELSE [heap |-> MergeSections(h2, result, file.sub, DOMAIN file.sub),
             root |-> result]

\* The loop of get, lines 261-266: value = value[key] for each key. Indexing
\* a dict with a missing key raises KeyError, indexing an int, a str or
\* None with a str raises TypeError.
RECURSIVE Walk(_, _, _)
Walk(h, value, keys) ==
    IF keys = <<>> THEN [exc |-> "none", value |-> value]
    ELSE IF value.t # "ref" THEN [exc |-> "TypeError", value |-> Value("none", 0)]
    ELSE IF Head(keys) \notin DOMAIN h[value.v]
         THEN [exc |-> "KeyError", value |-> Value("none", 0)]
    ELSE Walk(h, h[value.v][Head(keys)], Tail(keys))

GetCaughtKeyError == {"KeyError"}

\* except (KeyError, TypeError), line 267.
GetCaught == {"KeyError", "TypeError"}

\* Config.get, lines 249-268.
GetOutcome(h, root, key_path, default) ==
    LET r == Walk(h, Value("ref", root), SplitChar(key_path, ".")) IN
    IF r.exc = "none" THEN [kind |-> "returned", value |-> r.value]
    ELSE IF r.exc \in GetCaught THEN [kind |-> "returned", value |-> default]
    ELSE [kind |-> "raised", value |-> Value("none", 0)]

\* Config.set, lines 270-288: the dicts along keys[:-1] are followed, a
\* missing one is created, and the last key is assigned in the dict reached.
\* A value on the way that is not a dict makes the call raise TypeError, with
\* the dicts created so far left in place.
RECURSIVE SetWalk(_, _, _, _)
SetWalk(h, config, keys, value) ==
    LET key == Head(keys)
        d == h[config]
        created == Len(h) + 1
    IN IF Len(keys) = 1 THEN [h EXCEPT ![config] = (key :> value) @@ d]
       ELSE IF key \notin DOMAIN d
            THEN SetWalk(Append([h EXCEPT ![config] = (key :> Value("ref", created)) @@ d],
                                EmptyDict),
                         created, Tail(keys), value)
       ELSE IF d[key].t = "ref" THEN SetWalk(h, d[key].v, Tail(keys), value)
       ELSE h

\* The key paths get is called with: every short text, and the paths three
\* keys long that end in a stored value, in a missing key and past an int.
GetPaths ==
    UNION {[1..n -> {"s", "w", "u", "b", "."}] : n \in 0..MaxPath}
    \cup {Key.scraper \o <<".">> \o k \o <<".">> \o Key.boy_names : k \in {Key.urls, Key.max_workers}}
    \cup {Key.scraper \o <<".">> \o Key.urls \o <<".">> \o Key.urls}

\* The key paths and the values set is called with: 'scraper.max_workers',
\* 'scraper.urls.boy_names', a top-level key and a key of a new section.
SetPaths ==
    { Key.scraper \o <<".">> \o Key.max_workers,
      Key.scraper \o <<".">> \o Key.urls \o <<".">> \o Key.boy_names,
      Key.boy_names,
      Key.max_workers \o <<".">> \o Key.boy_names }

\* The module is imported: DEFAULT_CONFIG exists and _config_instance is None
\* (line 332).
InitConfig ==
    /\ max_pages = None
    /\ page_count = None
    /\ InitRun
    /\ FetchIdle /\ ParserIdle /\ CountIdle /\ TrackerIdle /\ StoreIdle
    /\ heap = DEFAULT_CONFIG
    /\ instances = <<>>
    /\ config_instance = None
    /\ handouts = <<>>
    /\ reloads = 0
    /\ sets = 0
    /\ got = [kind |-> "idle", inst |-> 0, path |-> <<>>,
              default |-> Value("none", 0), value |-> Value("none", 0)]

\* Config(config_file): the new object joins those that exist.
Construct(file) ==
    LET c == NewConfig(heap, file) IN
    /\ heap' = c.heap
    /\ instances' = Append(instances, [root |-> c.root, file |-> file, born |-> sets,
                                     touched |-> FALSE])

\* get_config, lines 335-348: the instance is created on the first call only.
get_config(file) ==
    /\ Len(handouts) < MaxHandouts
    /\ config_instance = None => Len(instances) < MaxInstances
    /\ IF config_instance = None
       THEN Construct(file) /\ config_instance' = Some(Len(instances'))
       ELSE UNCHANGED <<heap, instances, config_instance>>
    /\ handouts' = Append(handouts, [epoch |-> reloads, inst |-> config_instance'[1]])
    /\ UNCHANGED <<pipelineVars, fetchVars, parserVars, countVars, trackerVars,
                   storeVars, reloads, sets, got>>

\* reload_config, lines 351-359: a new Config replaces the global instance.
reload_config(file) ==
    /\ Len(instances) < MaxInstances
    /\ Construct(file)
    /\ config_instance' = Some(Len(instances'))
    /\ reloads' = reloads + 1
    /\ UNCHANGED <<pipelineVars, fetchVars, parserVars, countVars, trackerVars,
                   storeVars, handouts, sets, got>>

\* Config.set on the i-th Config object, lines 270-288.
set(i, key_path, value) ==
    /\ sets < MaxSets
    /\ heap' = SetWalk(heap, instances[i].root, SplitChar(key_path, "."), value)
    /\ instances' = [instances EXCEPT ![i].touched = TRUE]
    /\ sets' = sets + 1
    /\ UNCHANGED <<pipelineVars, fetchVars, parserVars, countVars, trackerVars,
                   storeVars, config_instance, handouts, reloads, got>>

\* Config.get on the i-th Config object, lines 249-268. One get call is
\* followed.
get(i, key_path, default) ==
    LET r == GetOutcome(heap, instances[i].root, key_path, default) IN
    /\ got.kind = "idle"
    /\ got' = [kind |-> r.kind, inst |-> i, path |-> key_path,
               default |-> default, value |-> r.value]
    /\ UNCHANGED <<pipelineVars, fetchVars, parserVars, countVars, trackerVars,
                   storeVars, heap, instances, config_instance, handouts, reloads, sets>>

NextConfig ==
    \/ \E file \in YamlFiles : get_config(file)
    \/ \E file \in YamlFiles : reload_config(file)
    \/ \E i \in 1..Len(instances), key_path \in SetPaths, value \in {Value("int", 8)} :
           set(i, key_path, value)
    \/ \E i \in 1..Len(instances), key_path \in GetPaths, default \in {Value("none", 0), Value("int", 0)} :
           get(i, key_path, default)

SpecConfig == InitConfig /\ [][NextConfig]_vars

\* ---------------------------------------------------------------- claims
AllPages == Genders \X Pages

\* Batches handed to save_names_batch, those still inside it, those returned.
CalledBatches == {b \in AllPages : saveCalls[b[1]][b[2]] > 0}
InSave == {b \in AllPages : tpc[b[1]][b[2]] = "db"}
ReturnedBatches == CalledBatches \ InSave

BatchSize(b) == extracted[b[1]][b[2]][1]

RECURSIVE SumSizes(_)
SumSizes(S) ==
    IF S = {} THEN 0
    ELSE LET b == CHOOSE x \in S : TRUE IN BatchSize(b) + SumSizes(S \ {b})

NoDup(s) == \A i, j \in DOMAIN s : s[i] = s[j] => i = j

Interrupted == outcome = "KeyboardInterrupt"

\* The records in the JSON snapshot (none when it was not written).
JsonRows == IF json = None THEN <<>> ELSE json[1]

\* C1 (as claimed): when scrape_all has returned, every page whose fetch
\* succeeded has as many records in the CSV, in the SQLite table and in the
\* JSON snapshot as the parser extracted from it, also in runs with an I/O error.
C1_RecordsInEverySink ==
    dpc = "returned" =>
        \A g \in Genders, p \in Pages :
            extracted[g][p] # None =>
                /\ CountOf(csv, g, p) = extracted[g][p][1]
                /\ CountOf(dbc, g, p) = extracted[g][p][1]
                /\ CountOf(JsonRows, g, p) = extracted[g][p][1]

C3_NoPartialBatch ==
    \A b \in ReturnedBatches :
        LET g == b[1]
            p == b[2]
        IN  /\ (csvRes[g][p] = "err" \/ dbRes[g][p] = "err") =>
                  /\ CountOf(scraped_names, g, p) = 0
                  /\ CountOf(csv, g, p) = 0
                  /\ CountOf(dbc, g, p) = 0
            /\ (csvRes[g][p] = "ok" /\ dbRes[g][p] = "ok") =>
                  /\ CountOf(csv, g, p) = BatchSize(b)
                  /\ CountOf(dbc, g, p) = BatchSize(b)

\* C4 (as claimed): when the CSV write of a batch fails with an I/O error, the
\* SQLite write of the same batch is still attempted.
C4_OtherRepresentationsAttempted ==
    \A b \in ReturnedBatches :
        csvRes[b[1]][b[2]] = "err" => dbRes[b[1]][b[2]] # "none"

\* C5: get_total_count() is at least the sum of the sizes of the batches whose
\* save_names_batch has returned, and equals it when no call is inside
\* save_names_batch.
C5_TotalCountLinearizable ==
    /\ get_total_count >= SumSizes(ReturnedBatches)
    /\ InSave = {} => get_total_count = SumSizes(ReturnedBatches)

\* C5 witness: three batches, saved by workers of both categories, have
\* returned and no call is in progress.
C5_Witness ==
    /\ Cardinality(ReturnedBatches) >= 3
    /\ \A g \in Genders : \E p \in Pages : <<g, p>> \in ReturnedBatches
    /\ InSave = {}
    /\ get_total_count = 3

\* C6: once save_json_final is due or done, both category threads have ended,
\* no scrape_page attempt is queued or running, and a snapshot that was written
\* holds every record of scraped_names.
C6_FinalizeAfterAllSaves ==
    dpc \in {"finalize", "summary", "returned"} =>
        /\ \A g \in Genders : gpc[g] = "done"
        /\ \A g \in Genders, p \in Pages : tpc[g][p] \notin Active \cup {"queued"}
        /\ json # None => json[1] = scraped_names

\* C6 witness: the snapshot has been written after batches of both categories.
C6_Witness ==
    /\ dpc = "summary"
    /\ json # None
    /\ \A g \in Genders : \E p \in Pages : CountOf(json[1], g, p) > 0

\* C7 (as claimed): a run interrupted while the driver waits for the category
\* threads has saved the checkpoint and the JSON snapshot, with the records
\* collected so far, by the time scrape_all ends.
C7_InterruptStillFinalizes ==
    (Interrupted /\ dpc \in {"raised", "returned"}) =>
        /\ progress # None
        /\ json # None

\* C8 (as claimed): after the interrupt no scrape_page attempt starts a fetch
\* and no save_names_batch is attempted on the closed handles.
C8_NoNewTaskAfterInterrupt ==
    [][Interrupted =>
          /\ \A g \in Genders, p \in Pages :
                tpc'[g][p] = "fetch" => tpc[g][p] = "fetch"
          /\ saveCalls' = saveCalls]_vars

\* C9 (as claimed): when writing the JSON snapshot failed, scrape_all does not
\* return a normal summary.
C9_FinalizeFailureSurfaces ==
    (dpc = "returned" /\ json = None) => outcome # "result"

\* C10: when a category harvest has ended, a page of 1..total_pages is in
\* completed_pages exactly when its pool attempt or its retry attempt
\* succeeded, whatever happened to the other pages, and every page that failed
\* in the pool had its retry attempt.
C10_RetryClassification ==
    \A g \in Genders :
        gpc[g] = "done" =>
            \A p \in 1..total[g] :
                /\ InSeq(p, completed[g]) <=>
                      (poolRes[g][p] = "ok" \/ retryRes[g][p] = "ok")
                /\ poolRes[g][p] = "fail" => retryRes[g][p] # "none"

\* C10 witness: in one ended harvest a page failed twice and is not completed,
\* while another page failed once, succeeded on retry and is completed.
C10_Witness ==
    \E g \in Genders : \E p, q \in 1..total[g] :
        /\ gpc[g] = "done"
        /\ poolRes[g][p] = "fail" /\ retryRes[g][p] = "fail"
        /\ ~InSeq(p, completed[g])
        /\ poolRes[g][q] = "fail" /\ retryRes[g][q] = "ok"
        /\ InSeq(q, completed[g])

\* Sum of f[p] over the pages of S.
RECURSIVE SumStarts(_, _)
SumStarts(f, S) ==
    IF S = {} THEN 0
    ELSE LET p == CHOOSE x \in S : TRUE IN f[p] + SumStarts(f, S \ {p})

PoolPending(g, p) ==
    \/ tpc[g][p] = "queued"
    \/ poolStarts[g][p] > 0 /\ poolRes[g][p] = "none"

\* C12: within one category the retry pass begins only after every pool task
\* has finished: while the category thread is in the retry pass, or once any
\* retry attempt has started, no pool task of that category is queued or running.
C12_RetryAfterPoolDrained ==
    \A g \in Genders :
        (gpc[g] = "retry" \/ SumStarts(retryStarts[g], Pages) > 0) =>
            \A p \in Pages : ~PoolPending(g, p)

\* A retry attempt is running in a category whose pool ran two tasks.
C12_Witness ==
    \E g \in Genders :
        /\ gpc[g] = "retry"
        /\ total[g] >= 2
        /\ \E p \in Pages : tpc[g][p] \in Active /\ retryStarts[g][p] = 1
\* A returned attempt of page (g, p) whose fetch got a successful response:
\* made by a pool worker, or by the retry pass.
PoolFetched(g, p) ==
    \/ "pool" \in emptyBody[g][p]
    \/ extracted[g][p] # None /\ retryStarts[g][p] = 0 /\ tpc[g][p] = "col"

RetryFetched(g, p) ==
    \/ "retry" \in emptyBody[g][p]
    \/ extracted[g][p] # None /\ retryStarts[g][p] = 1 /\ tpc[g][p] = "end"

\* C13: a page whose fetch got a successful response, whatever its content, is
\* classified completed and not failed by that attempt, also when no record
\* was extracted and nothing was saved.
C13_FetchedPageCompleted ==
    \A g \in Genders, p \in Pages :
        /\ PoolFetched(g, p) => InSeq(p, completed[g]) /\ ~InSeq(p, failed[g])
        /\ RetryFetched(g, p) => InSeq(p, completed[g])
\* What category h's harvest owes to its own pages alone: a page is completed
\* exactly when one of its own attempts succeeded, and a batch whose write to
\* a representation succeeded has all its records there.
OwnResult(h) ==
    \A p \in 1..total[h] :
        /\ InSeq(p, completed[h]) <=> (poolRes[h][p] = "ok" \/ retryRes[h][p] = "ok")
        /\ saveCalls[h][p] = 1 =>
              CountOf(scraped_names, h, p) = extracted[h][p][1]
        /\ csvRes[h][p] = "ok" => CountOf(csv, h, p) = extracted[h][p][1]
        /\ dbRes[h][p] = "ok" =>
              CountOf(dbc, h, p) + CountOf(dbp, h, p) = extracted[h][p][1]

\* C14: when the first-page fetch of a category fails, that category's harvest
\* ends without dispatching or attempting any page and with no completed
\* page, the other category's harvest still ends with the result its own
\* pages give it, and a scrape_all that ends with this failure in the run and
\* without an interrupt has returned its summary.
C14_DiscoveryFailureIsolated ==
    \A g \in Genders :
        discovered[g] = "fail" =>
            /\ gpc[g] = "done"
            /\ total[g] = 0
            /\ \A p \in Pages :
                  /\ tpc[g][p] = "none"
                  /\ poolStarts[g][p] = 0 /\ retryStarts[g][p] = 0
            /\ completed[g] = <<>>
            /\ \A h \in Genders \ {g} : gpc[h] = "done" => OwnResult(h)
            /\ (dpc \in {"returned", "raised"} /\ ~Interrupted) => outcome = "result"

\* A run has returned its summary after one category failed at discovery
\* while the other completed two pages whose records are in the snapshot.
C14_Witness ==
    \E g, h \in Genders :
        /\ discovered[g] = "fail"
        /\ discovered[h] = "ok"
        /\ dpc = "returned" /\ outcome = "result"
        /\ Len(completed[h]) = 2
        /\ \E p \in Pages : CountOf(JsonRows, h, p) > 0
\* C15: when the first page has no usable pagination marker (get_page_count
\* returns None) and no page cap is given, the tasks dispatched are exactly
\* those of pages 1 to 10.
C15_FallbackTenPages ==
    (page_args # None /\ page_count = None /\ max_pages = None) =>
        page_args[1] = <<1, 2, 3, 4, 5, 6, 7, 8, 9, 10>>

\* The task list has been built for an unknown page count and no cap.
C15_Witness ==
    /\ page_args # None
    /\ page_count = None
    /\ max_pages = None

\* The discovered page count, or the fallback when discovery yields none.
DiscoveredOrDefault == IF page_count = None THEN DefaultPages ELSE page_count[1]

\* C16 (as claimed): whenever a cap is passed as max_pages, whatever integer
\* it is, the number of tasks dispatched is min(d, cap), d being the
\* discovered page count or the fallback (no task when that minimum is not
\* positive).
C16_TasksAreMinOfCountAndCap ==
    (page_args # None /\ max_pages # None) =>
        LET m == Min(DiscoveredOrDefault, max_pages[1])
        IN  Len(page_args[1]) = IF m < 0 THEN 0 ELSE m
\* C17: after a successful discovery every page of 1..total_pages has one pool
\* task, which is waiting in the queue or has been picked up by one worker
\* (by the end of the pool phase: picked up exactly once), and no page outside
\* 1..total_pages is ever queued or attempted, by the pool or by the retry pass.
C17_EachPageSubmittedOnce ==
    \A g \in Genders :
        discovered[g] = "ok" =>
            \A p \in Pages :
                /\ poolStarts[g][p] <= 1
                /\ p \in 1..total[g] =>
                      /\ (tpc[g][p] = "queued") <=> (poolStarts[g][p] = 0)
                      /\ gpc[g] \in {"retry", "done"} => poolStarts[g][p] = 1
                /\ p \notin 1..total[g] =>
                      /\ tpc[g][p] = "none"
                      /\ poolStarts[g][p] = 0 /\ retryStarts[g][p] = 0

\* One harvest of two pages has ended, with a page retried, and one harvest
\* of a single page has ended without touching page 2.
C17_Witness ==
    \E g, h \in Genders :
        /\ gpc[g] = "done" /\ total[g] = 2
        /\ \A p \in 1..2 : poolStarts[g][p] = 1
        /\ \E p \in 1..2 : retryStarts[g][p] = 1
        /\ gpc[h] = "done" /\ discovered[h] = "ok" /\ total[h] = 1
        /\ poolStarts[h][1] = 1
\* C18: at every moment the scrape_page calls of one category that are in
\* flight (fetching, parsing, waiting for the sink or saving) number at most
\* W = max_workers, and those of both categories at most 2W.
C18_InFlightBounded ==
    /\ \A g \in Genders : InFlight(g) <= max_workers
    /\ InFlight("male") + InFlight("female") <= 2 * max_workers

\* Both pools are full while each still has a task waiting in its queue.
C18_Witness ==
    \A g \in Genders :
        /\ InFlight(g) = max_workers
        /\ Queued(g) # {}
\* The workers inside the sink's write section.
InWriteSection == {b \in AllPages : tpc[b[1]][b[2]] \in {"csv", "db"}}

\* The rows of each batch are adjacent in the sequence s.
Contiguous(s) ==
    \A i, j \in DOMAIN s :
        (i < j /\ s[i][1] = s[j][1] /\ s[i][2] = s[j][2]) =>
            \A k \in i..j : s[k][1] = s[i][1] /\ s[k][2] = s[i][2]

\* C19: at most one worker, of either category, is inside the sink's write
\* section at any time; the rows of a batch are adjacent in the CSV file and in
\* scraped_names; and the sink's lock is held exactly by the worker inside the
\* write section, never by one that is fetching, parsing or waiting.
C19_WriteSectionExclusive ==
    /\ Cardinality(InWriteSection) <= 1
    /\ Contiguous(csv)
    /\ Contiguous(scraped_names)
    /\ \A b \in AllPages : lock = Some(b) <=> b \in InWriteSection

\* Two batches have been written, a third worker has written the first of its
\* two rows, and another worker is fetching or waiting for the lock.
C19_Witness ==
    /\ Len(csv) >= 4
    /\ \E b \in InWriteSection :
          /\ extracted[b[1]][b[2]] = Some(2)
          /\ CountOf(csv, b[1], b[2]) = 1
    /\ \E c \in AllPages : tpc[c[1]][c[2]] \in {"fetch", "wait"}
\* C20: a category's harvest that has been started reaches its terminal state
\* and records its result whatever the other category does (still fetching,
\* retrying, failed or never scheduled again), provided its own steps are
\* taken, its own fetches return and every write section entered is left.
\* Stated for the male category; the model is symmetric in the two.
C20_HarvestTerminates == (gpc["male"] = "discover") ~> (gpc["male"] = "done")

\* The male harvest has ended with two completed pages while the female
\* category is still in the fetch of its first page.
C20_Witness ==
    /\ gpc["male"] = "done"
    /\ Len(completed["male"]) = 2
    /\ gpc["female"] = "discover"
\* A pool or retry attempt of the page ended without success: the fetch
\* failed or scrape_page raised.
PoolFailed(g, p) == poolRes[g][p] \in {"fail", "exc"}

\* C21: no page-level failure aborts the run.  A harvest that has ended after
\* a successful discovery has attempted every page of 1..total_pages in the
\* pool and every page that failed or raised there in the retry pass, and its
\* completed pages are those with a successful attempt; the driver is never
\* left with an outcome other than its summary (or the interrupt), and until
\* scrape_all has ended some step of the run is always possible.
C21_PageFailureNeverAborts ==
    /\ \A g \in Genders :
          (gpc[g] = "done" /\ discovered[g] = "ok") =>
              \A p \in 1..total[g] :
                  /\ poolStarts[g][p] = 1
                  /\ PoolFailed(g, p) => retryStarts[g][p] = 1
                  /\ InSeq(p, completed[g]) <=>
                        (poolRes[g][p] = "ok" \/ retryRes[g][p] = "ok")
    /\ outcome \in {"none", "result", "KeyboardInterrupt"}
    /\ dpc = "returned" => (outcome = "result" /\ AllJoined)
    /\ dpc \notin {"returned", "raised"} => ENABLED NextRaise

\* A run has returned its summary, with checkpoint and snapshot written,
\* after a category saw scrape_page raise in the pool for one page and again
\* in the retry pass, and a fetch failure on its other page, which its retry
\* completed.
C21_Witness ==
    /\ dpc = "returned" /\ outcome = "result"
    /\ progress # None /\ json # None
    /\ \E g \in Genders : \E p, q \in 1..total[g] :
          /\ poolRes[g][p] = "exc" /\ retryRes[g][p] = "exc"
          /\ poolRes[g][q] = "fail" /\ retryRes[g][q] = "ok"
          /\ InSeq(q, completed[g])
\* C22: when every fetch returns and the threads are scheduled fairly, a
\* harvest that has terminated after a successful discovery has attempted
\* every page of 1..total_pages once in the pool and every page that failed
\* there once in the retry pass; and every run comes to a state where both
\* category harvests have terminated and, unless the run was interrupted,
\* the driver is at finalize.
C22_HarvestsTerminateRunFinalizes ==
    /\ [](\A g \in Genders :
            (gpc[g] = "done" /\ discovered[g] = "ok") =>
                \A p \in 1..total[g] :
                    /\ poolStarts[g][p] = 1
                    /\ retryStarts[g][p] = IF poolRes[g][p] = "fail" THEN 1 ELSE 0)
    /\ <>(AllJoined /\ (Interrupted \/ dpc = "finalize"))

\* The run is at finalize after both harvests ended, one of them with a
\* page that failed in the pool and was retried.
C22_Witness ==
    /\ dpc = "finalize"
    /\ AllJoined
    /\ \E g \in Genders : \E p \in 1..total[g] :
          poolRes[g][p] = "fail" /\ retryStarts[g][p] = 1
\* save_names_batch was called for page (g, p) and returned without an error.
SavedWithoutError(g, p) ==
    /\ saveCalls[g][p] = 1
    /\ csvRes[g][p] = "ok"
    /\ dbRes[g][p] = "ok"

\* C23: once save_names_batch has returned without error for a page, all the
\* page's records are in the flushed CSV file and in the committed SQLite
\* table; a page with records is in completed_pages only after its
\* save_names_batch call has returned; and the JSON snapshot does not exist
\* before the driver has gone through finalize.
C23_SavedBeforeCompleted ==
    /\ \A g \in Genders, p \in Pages :
          /\ SavedWithoutError(g, p) =>
                /\ CountOf(csv, g, p) = extracted[g][p][1]
                /\ CountOf(dbc, g, p) = extracted[g][p][1]
          /\ (InSeq(p, completed[g]) /\ extracted[g][p] # None /\ extracted[g][p][1] > 0) =>
                /\ saveCalls[g][p] = 1
                /\ tpc[g][p] \notin {"wait", "db"}
    /\ json # None => dpc \in {"summary", "returned"}

\* While the driver still waits for the category threads and no snapshot
\* exists, a completed page has its record in the CSV file and in the table,
\* and another page is still being fetched.
C23_Witness ==
    /\ dpc = "join"
    /\ json = None
    /\ \E g \in Genders, p \in Pages :
          /\ InSeq(p, completed[g])
          /\ SavedWithoutError(g, p)
          /\ CountOf(csv, g, p) = 1 /\ CountOf(dbc, g, p) = 1
    /\ \E g \in Genders, p \in Pages : tpc[g][p] = "fetch"
\* The last thing the request met.
LastOutcome == sent[Len(sent)]

\* C24 (as claimed): fetch_page never raises, it returns the failure value
\* whenever the request ended with an error or with a status that is not 2xx,
\* and it returns content only for a 2xx response.
C24_FailuresAreValues ==
    fetch_result \notin {"idle", "pending"} =>
        /\ fetch_result # "raised"
        /\ fetch_result = "content" <=>
              (LastOutcome.kind = "response" /\ LastOutcome.status \in 200..299)

\* C25 (as claimed): the request is sent again only after a connection error
\* or a response whose status is in the allow-list; it is sent at most
\* 1 + max_retries times; when the retries are used up the call yields the
\* failure value; and an error status outside the allow-list yields the
\* failure value without having been followed by another send.
C25_ResendOnlyOnAllowList ==
    /\ Len(sent) <= 1 + retry_total
    /\ \A i \in 1..Len(sent) :
          i < Len(sent) =>
              \/ sent[i].kind = "error"
              \/ sent[i].status \in StatusForcelist
    /\ fetch_result \notin {"idle", "pending"} =>
          /\ (LastOutcome.kind = "error" \/ LastOutcome.status \in StatusForcelist) =>
                (Len(sent) = 1 + retry_total /\ fetch_result = "None")
          /\ (LastOutcome.kind = "response" /\ LastOutcome.status \notin StatusForcelist
                /\ RaisesForStatus(LastOutcome.status)) => fetch_result = "None"

\* The row of the page has the <a> element of the category being parsed:
\* name_boys for male, name_girls for female.
CarriesMarker(i) ==
    \/ gender = "male" /\ html_content[i].anchor = "name_boys"
    \/ gender = "female" /\ html_content[i].anchor = "name_girls"

\* The position, in the returned list, of the record of row i: the number of
\* rows up to i that carry the marker.
Rank(i) == Cardinality({j \in 1..i : CarriesMarker(j)})

\* C26: every record returned by parse_names_from_page has a non-empty
\* english_name and a gender equal to the gender the page was parsed for.
C26_RecordsHaveLabelAndTag ==
    parsed # None =>
        \A k \in 1..Len(parsed[1]) :
            /\ parsed[1][k].english_name # <<>>
            /\ parsed[1][k].gender = gender

\* C27: for a page none of whose rows carries the category's marker (a page
\* with no rows included), parse_names_from_page returns the empty list.
C27_NoMarkerNoRecords ==
    (parsed # None /\ \A i \in 1..Len(html_content) : ~CarriesMarker(i))
        => parsed = Some(<<>>)

C27_Witness ==
    /\ parsed = Some(<<>>)
    /\ Len(html_content) = MaxNameRows
    /\ \E i \in 1..Len(html_content) : html_content[i].anchor \notin {"none", ClassName(gender)}

\* The record of row i taken on its own.
AloneRecord(i) == ParseRows(<<html_content[i]>>, gender)

\* C28: a row with a primary label that lacks the arabic element and/or the
\* annotation still gets a record, whose arabic_name resp. meaning is the
\* empty text, and every row's record is the one the row yields on its own.
C28_MissingFieldsAreEmpty ==
    parsed # None =>
        /\ Len(parsed[1]) = Rank(Len(html_content))
        /\ \A i \in 1..Len(html_content) : CarriesMarker(i) =>
              /\ <<parsed[1][Rank(i)]>> = AloneRecord(i)
              /\ Strip(html_content[i].label) # <<>> =>
                    /\ html_content[i].arabic = None =>
                          parsed[1][Rank(i)].arabic_name = <<>>
                    /\ html_content[i].note = <<>> =>
                          parsed[1][Rank(i)].meaning = <<>>

\* The text of the pagination element.
MarkerText == page_info[1]

\* The first "of" of the text starts at character k.
FirstOfAt(k) ==
    /\ k + 1 <= Len(MarkerText)
    /\ MarkerText[k] = "o" /\ MarkerText[k + 1] = "f"
    /\ \A j \in 1..(k - 1) : ~(MarkerText[j] = "o" /\ MarkerText[j + 1] = "f")

\* Character a is the first one after the "of" at k that is not whitespace.
WordStartsAt(k, a) ==
    /\ a >= k + 2 /\ a <= Len(MarkerText)
    /\ MarkerText[a] \notin Whitespace
    /\ \A j \in (k + 2)..(a - 1) : MarkerText[j] \in Whitespace

IsDigit(c) == c \in {"0", "1", "2", "3", "4", "5", "6", "7", "8", "9"}

\* The pagination marker is missing, or what follows its "of" does not start
\* with an integer.
NoIntegerAfterOf ==
    \/ page_info = None
    \/ \A k \in 1..Len(MarkerText) : ~FirstOfAt(k)
    \/ \E k \in 1..Len(MarkerText) :
          /\ FirstOfAt(k)
          /\ \A a \in 1..Len(MarkerText) : WordStartsAt(k, a) =>
                /\ ~IsDigit(MarkerText[a])
                /\ ~(MarkerText[a] = "-" /\ a < Len(MarkerText)
                        /\ IsDigit(MarkerText[a + 1]))

\* Characters a..b are the decimal numeral of n, and no digit follows them.
NumeralAt(a, b, n) ==
    LET neg == MarkerText[a] = "-"
        first == IF neg THEN a + 1 ELSE a
        Val[j \in (first - 1)..b] ==
            IF j < first THEN 0
            ELSE 10 * Val[j - 1] +
                 (CASE MarkerText[j] = "1" -> 1 [] MarkerText[j] = "2" -> 2 [] OTHER -> 0)
    IN /\ first <= b
       /\ \A j \in first..b : IsDigit(MarkerText[j])
       /\ b < Len(MarkerText) => ~IsDigit(MarkerText[b + 1])
       /\ n = IF neg THEN 0 - Val[b] ELSE Val[b]

C30_LoadReturnsLastSave ==
    loaded.kind = "returned" =>
        /\ ckpt = None => loaded.value = None
        /\ saved # <<>> =>
              /\ loaded.value # None
              /\ loaded.value[1].completed_pages_male =
                    saved[Len(saved)].args.completed_pages_male
              /\ loaded.value[1].completed_pages_female =
                    saved[Len(saved)].args.completed_pages_female
              /\ loaded.value[1].total_names_scraped = saved[Len(saved)].args.total_names

C32_CheckpointAfterHarvests ==
    progress # None =>
        /\ dpc \in {"finalize", "summary", "returned"}
        /\ \A g \in Genders : gpc[g] = "done"
        /\ progress[1].male = completed["male"]
        /\ progress[1].female = completed["female"]
        /\ progress[1].total_names = Len(scraped_names)

C32_Witness ==
    /\ progress # None
    /\ Len(progress[1].male) = MaxPages
    /\ progress[1].female = <<>>
    /\ failed["female"] # <<>>
    /\ progress[1].total_names > 0

\* C33: the HTTP session is used by a single worker: at no time are two
\* scrape_page calls, which run on different threads, inside the session's
\* get.
C33_SessionUsedByOneWorker == Cardinality(SessionUsers) <= 1

\* The pages of the category whose retry attempt ended without success: they
\* failed in the pool and again in the retry pass.
PermanentlyFailed(g) == {p \in Pages : retryRes[g][p] \in {"fail", "exc"}}

\* The set of the pages in completed_pages.
CompletedSet(g) == {completed[g][i] : i \in 1..Len(completed[g])}

Settled(g, p) == tpc[g][p] \in {"col", "end"}

\* C35: a page whose attempts have returned is in completed_pages exactly when
\* a fetch of it returned content, whatever save_names_batch met for it.
C35_OutcomeDependsOnFetchOnly ==
    \A g \in Genders, p \in Pages :
        Settled(g, p) => (InSeq(p, completed[g]) <=> extracted[g][p] # None)

\* C35 witness: a page is listed as completed although none of its records
\* is in the CSV file or in the SQLite table.
C35_Witness ==
    \E g \in Genders, p \in Pages :
        /\ gpc[g] = "done"
        /\ InSeq(p, completed[g])
        /\ extracted[g][p] # None /\ extracted[g][p][1] > 0
        /\ csvRes[g][p] = "err"
        /\ CountOf(csv, g, p) = 0
        /\ CountOf(dbc, g, p) = 0

\* C36: at every moment, also after failed batch writes, scraped_names holds
\* at least as many records as the CSV file has data rows, which has at least
\* as many as the SQLite table has committed rows; and no step makes
\* scraped_names shorter.
C36_SinkCountsOrdered ==
    /\ [](Len(scraped_names) >= Len(csv) /\ Len(csv) >= Len(dbc))
    /\ [][Len(scraped_names') >= Len(scraped_names)]_vars

\* C36 witness: after a failed batch write the three counts all differ.
C36_Witness ==
    /\ ioFaults > 0
    /\ \E g \in Genders, p \in Pages : dbRes[g][p] = "err"
    /\ Len(scraped_names) > Len(csv)
    /\ Len(csv) > Len(dbc)
    /\ Len(dbc) > 0

\* C37: in the summary scrape_all returned, total_names is boy_names +
\* girl_names and is the number of records in the JSON snapshot, and the
\* completed_pages counts are the lengths of the lists the two harvests
\* returned.
C37_SummaryMatchesArtifacts ==
    summary # None =>
        /\ summary[1].total_names = summary[1].boy_names + summary[1].girl_names
        /\ summary[1].total_names = Len(JsonRows)
        /\ \A g \in Genders : summary[1].completed_pages[g] = Len(completed[g])

\* What a key path reads as in the Config object at root: how get ends on it,
\* with a dict told from another only by being a dict.
Reads(h, root, key_path) ==
    LET r == GetOutcome(h, root, key_path, Value("none", 0)) IN
    IF r.value.t = "ref" THEN [r EXCEPT !.value = Value("ref", 0)] ELSE r

\* The Config object a file gives when no set call has happened anywhere: the
\* defaults as DEFAULT_CONFIG declares them, merged with the file.
Pristine(file) == NewConfig(DEFAULT_CONFIG, file)

\* C38: a Config object created after set calls on earlier Config objects,
\* and on which set was never called, holds the defaults merged with its
\* file: nothing set earlier is visible in it, nested keys such as
\* 'scraper.max_workers' included.
C38_InstancesIndependent ==
    \A i \in 1..Len(instances) :
        instances[i].born > 0 /\ ~instances[i].touched =>
            \A key_path \in SetPaths :
                Reads(heap, instances[i].root, key_path)
                    = Reads(Pristine(instances[i].file).heap,
                            Pristine(instances[i].file).root, key_path)

\* The places of the dots of a key path, with the places before its first
\* character and after its last one.
Cuts(key_path) ==
    {0, Len(key_path) + 1} \cup {i \in 1..Len(key_path) : key_path[i] = "."}

\* The k-th smallest member of a set of numbers.
Kth(S, k) == CHOOSE x \in S : Cardinality({y \in S : y < x}) = k - 1

\* The k-th segment of a dotted path.
Segment(key_path, k) ==
    SubSeq(key_path, Kth(Cuts(key_path), k) + 1, Kth(Cuts(key_path), k + 1) - 1)

\* What the first k segments of a path lead to from the dict at root: ok is
\* FALSE when one of them is missing or is looked up in a value that is not a
\* dict.
RECURSIVE Reached(_, _, _, _)
Reached(h, root, key_path, k) ==
    IF k = 0 THEN [ok |-> TRUE, value |-> Value("ref", root)]
    ELSE LET prev == Reached(h, root, key_path, k - 1)
             seg == Segment(key_path, k)
         IN IF prev.ok /\ prev.value.t = "ref" /\ seg \in DOMAIN h[prev.value.v]
            THEN [ok |-> TRUE, value |-> h[prev.value.v][seg]]
            ELSE [ok |-> FALSE, value |-> Value("none", 0)]

StoredOrDefault(h, root, key_path, default) ==
    LET end == Reached(h, root, key_path, Cardinality(Cuts(key_path)) - 1) IN
    IF end.ok THEN end.value ELSE default

\* C39: a get call returns, never raises: the stored value when every segment
\* of the path exists, the given default when a segment is missing or an
\* intermediate value is not a dict; and the get_config calls between two
\* reload_config calls all return the same instance.
C39_GetTotalAndInstanceShared ==
    /\ [][got' # got =>
             /\ got'.kind = "returned"
             /\ got'.value = StoredOrDefault(heap, instances[got'.inst].root,
                                             got'.path, got'.default)]_vars
    /\ [](\A a, b \in 1..Len(handouts) :
             handouts[a].epoch = handouts[b].epoch
                 => handouts[a].inst = handouts[b].inst)

\* Two get_config calls with no reload between them have returned, a value was
\* set, and get returned the default for 'scraper.max_workers.boy_names',
\* whose intermediate value is an int.
C39_Witness ==
    /\ Len(handouts) = 2
    /\ handouts[1].epoch = handouts[2].epoch
    /\ sets = 1
    /\ got.kind = "returned"
    /\ got.path = Key.scraper \o <<".">> \o Key.max_workers \o <<".">> \o Key.boy_names
    /\ got.default = Value("int", 0)
    /\ got.value = Value("int", 0)

====
